---- MODULE Spec2Model ----
(***************************************************************************)
(* The log-normalisation and dispatch engine of texparser3.py: the chain   *)
(* of stream decorators (NoLinebreak80, LinebreakWarning,                  *)
(* NoMultilineWarning, NoMultilinePackageWarning), the pattern-table       *)
(* parsers (TexParser, MkIndexParser, BibTexParser, LaTexParser,           *)
(* ParseLatexMk) and the delegation of the one shared stream from          *)
(* ParseLatexMk to its sub-parsers.                                        *)
(*                                                                         *)
(* Text.  A Python string is a sequence of pieces.  A piece carries a      *)
(* token t (a fragment of a log line) and the place it came from: physical *)
(* line k of the stream and token j of that line (k = 0 for text the       *)
(* program itself inserts).  The tokens are cut so that every literal of   *)
(* every regular expression of the program begins and ends at a token      *)
(* boundary of the sample lines, parentheses and leading white space are   *)
(* tokens of their own, and "\n" is the line terminator.  A regular        *)
(* expression is a sequence of atoms over tokens.                          *)
(***************************************************************************)
EXTENDS Integers, Sequences, FiniteSets, TLC

(* ------------------------------ bounds --------------------------------- *)

\* A process that latexmk, bibtex or makeindex starts prints at most MaxLen
\* physical lines, latex alone at most MaxLatexLen.
MaxLen == 7

MaxLatexLen == 4

(* ------------------------- the sample log lines ------------------------ *)

LineToks ==
    ("LtxBanner" :> <<"This is ", "pdfTeXk", ", Version 3.141592", "\n">>)
    @@ ("BibBanner" :> <<"This is ", "BibTeX", ", Version 0.99c", "\n">>)
    @@ ("IdxBanner" :> <<"This is ", "makeindex", ", version 2.15", "\n">>)
    @@ ("BibWarn" :> <<"Warning--", "empty journal in knuth84", "\n">>)
    @@ ("BibErr" :> <<"I couldn't open ", "style", " file", " plain.bst", "\n">>)
    @@ ("BibRef" :> <<"--line ", "12", " of file ", "refs.bib", "\n">>)
    @@ ("BibRef3" :> <<"---", "line ", "12", " of file ", "refs.bib", "\n">>)
    @@ ("Sep" :> <<"---", "---------", "\n">>)
    @@ ("IdxErr" :> <<"Input index file ", "test.idx", " not found", ".", "\n">>)
    @@ ("Transcript" :> <<"Transcript written on ", "test.log", ".", "\n">>)
    @@ ("AllTargets" :> <<"Latexmk", ": All targets ", "(", "test.pdf", ")", " are up-to-date", "\n">>)
    @@ ("MkInfo" :> <<"Latexmk", ": applying rule 'pdflatex'...", "\n">>)
    @@ ("RunNumber" :> <<"Run number", " 1 of rule 'pdflatex'", "\n">>)
    @@ ("LtxErr" :> <<"./test.tex", ":", "12", ":", " ", "LaTeX Error:", " Environment foo undefined.", "\n">>)
    @@ ("LtxWarn" :> <<"LaTeX Warning:", " Reference `fig' undefined on ", "input line ", "5", ".", "\n">>)
    @@ ("LtxWarnML" :> <<"LaTeX Warning:", " You have requested package `a',", "\n">>)
    @@ ("Cont" :> <<"               ", "but the package provides `b'.", "\n">>)
    @@ ("PkgWarn" :> <<"Package ", "amsmath", " Warning:", " Cannot use `split' here;", "\n">>)
    @@ ("PkgCont" :> <<"(", "amsmath", ")", "               ", "trying to recover with `aligned'", "\n">>)
    @@ ("PkgOther" :> <<"(", "ext4", ")", "               ", "trying to recover with `aligned'", "\n">>)
    @@ ("Open" :> <<"(", "./test.tex", "\n">>)
    @@ ("OpenCls" :> <<"(", "/usr/share/texmf/article.cls", "\n">>)
    @@ ("Close" :> <<")", "\n">>)
    @@ ("PdfErr" :> <<"Error: pdflatex", " failed", "\n">>)
    @@ ("Fatal" :> <<" ", "==>", " Fatal error occurred", ", no output PDF file produced!", "\n">>)
    @@ ("OldErr" :> <<"!", " Undefined control sequence.", "\n">>)
    @@ ("OldErr2" :> <<"!", " ", "LaTeX Error:", " Missing begin.", "\n">>)
    @@ ("OldErrUp" :> <<"!", " INTERNAL ERROR in format file", "\n">>)
    @@ ("OldFatal" :> <<"!", " ", " ", "==>", " Fatal error occurred", ", no output PDF file produced!", "\n">>)
    @@ ("Underfull" :> <<"Underfull", " \\hbox ", "(", "badness", " 10000", ")", " in paragraph", "\n">>)
    @@ ("Overfull" :> <<"Overfull", " \\hbox ", "(", "3.5pt", " too ", "wide", ")", " in paragraph", "\n">>)
    @@ ("Inline" :> <<"[1]", " ", "pdfTeX warning", " ", "(", "ext4", ")", ": destination with the same identifier", "\n">>)
    @@ ("Wide80" :> <<"xxxxxxxxxxxxxxxxxxxxxxxxxxxxxxxxxxxxxxxxxxxxxxxxxxxxxxxxxxxxxxxxxxxxxxxxxxxxxxx", "\n">>)
    @@ ("Output" :> <<"Output written on ", "test.pdf", " ", "(", "1", " page, 1234 bytes", ")", ".", "\n">>)
    @@ ("Other" :> <<"Some unclassified output", "\n">>)

LineNames == DOMAIN LineToks

Tokens ==
    {"\n", " ", "               ", " 1 of rule 'pdflatex'", " 10000",
     " Cannot use `split' here;", " Environment foo undefined.",
     " Fatal error occurred", " INTERNAL ERROR in format file", " Missing begin.",
     " Reference `fig' undefined on ", " Undefined control sequence.", " Warning:",
     " You have requested package `a',", " \\hbox ", " are up-to-date", " failed",
     " file", " in paragraph", " not found", " of file ", " page, 1234 bytes",
     " plain.bst", " too ", "!", "(", ")", ", Version 0.99c", ", Version 3.141592",
     ", no output PDF file produced!", ", version 2.15", "---", "---------", "--line ",
     ".", "./test.tex", "/usr/share/texmf/article.cls", "1", "12", "3.5pt", "5", ":",
     ": All targets ", ": applying rule 'pdflatex'...",
     ": destination with the same identifier", "==>", "BibTeX", "Error: pdflatex",
     "I couldn't open ", "Input index file ", "LaTeX Error:", "LaTeX Warning:",
     "Latexmk", "Output written on ", "Overfull", "Package ", "Run number",
     "Some unclassified output", "This is ", "Transcript written on ", "Underfull",
     "Warning--", "[1]", "amsmath", "badness", "but the package provides `b'.",
     "empty journal in knuth84", "ext4", "input line ", "line ", "makeindex",
     "pdfTeX warning", "pdfTeXk", "refs.bib", "style", "test.idx", "test.log",
     "test.pdf", "trying to recover with `aligned'", "wide",
     "xxxxxxxxxxxxxxxxxxxxxxxxxxxxxxxxxxxxxxxxxxxxxxxxxxxxxxxxxxxxxxxxxxxxxxxxxxxxxxx"}

TokLen ==
    ("\n" :> 1) @@ (" " :> 1) @@ ("               " :> 15) @@
    (" 1 of rule 'pdflatex'" :> 21) @@ (" 10000" :> 6) @@
    (" Cannot use `split' here;" :> 25) @@ (" Environment foo undefined." :> 27) @@
    (" Fatal error occurred" :> 21) @@ (" INTERNAL ERROR in format file" :> 30) @@
    (" Missing begin." :> 15) @@ (" Reference `fig' undefined on " :> 30) @@
    (" Undefined control sequence." :> 28) @@ (" Warning:" :> 9) @@
    (" You have requested package `a'," :> 32) @@ (" \\hbox " :> 7) @@
    (" are up-to-date" :> 15) @@ (" failed" :> 7) @@ (" file" :> 5) @@
    (" in paragraph" :> 13) @@ (" not found" :> 10) @@ (" of file " :> 9) @@
    (" page, 1234 bytes" :> 17) @@ (" plain.bst" :> 10) @@ (" too " :> 5) @@ ("!" :> 1) @@
    ("(" :> 1) @@ (")" :> 1) @@ (", Version 0.99c" :> 15) @@ (", Version 3.141592" :> 18) @@
    (", no output PDF file produced!" :> 30) @@ (", version 2.15" :> 14) @@ ("---" :> 3) @@
    ("---------" :> 9) @@ ("--line " :> 7) @@ ("." :> 1) @@ ("./test.tex" :> 10) @@
    ("/usr/share/texmf/article.cls" :> 28) @@ ("1" :> 1) @@ ("12" :> 2) @@ ("3.5pt" :> 5) @@
    ("5" :> 1) @@ (":" :> 1) @@ (": All targets " :> 14) @@
    (": applying rule 'pdflatex'..." :> 29) @@
    (": destination with the same identifier" :> 38) @@ ("==>" :> 3) @@ ("BibTeX" :> 6) @@
    ("Error: pdflatex" :> 15) @@ ("I couldn't open " :> 16) @@ ("Input index file " :> 17) @@
    ("LaTeX Error:" :> 12) @@ ("LaTeX Warning:" :> 14) @@ ("Latexmk" :> 7) @@
    ("Output written on " :> 18) @@ ("Overfull" :> 8) @@ ("Package " :> 8) @@
    ("Run number" :> 10) @@ ("Some unclassified output" :> 24) @@ ("This is " :> 8) @@
    ("Transcript written on " :> 22) @@ ("Underfull" :> 9) @@ ("Warning--" :> 9) @@
    ("[1]" :> 3) @@ ("amsmath" :> 7) @@ ("badness" :> 7) @@
    ("but the package provides `b'." :> 29) @@ ("empty journal in knuth84" :> 24) @@
    ("ext4" :> 4) @@ ("input line " :> 11) @@ ("line " :> 5) @@ ("makeindex" :> 9) @@
    ("pdfTeX warning" :> 14) @@ ("pdfTeXk" :> 7) @@ ("refs.bib" :> 8) @@ ("style" :> 5) @@
    ("test.idx" :> 8) @@ ("test.log" :> 8) @@ ("test.pdf" :> 8) @@
    ("trying to recover with `aligned'" :> 32) @@ ("wide" :> 4) @@
    ("xxxxxxxxxxxxxxxxxxxxxxxxxxxxxxxxxxxxxxxxxxxxxxxxxxxxxxxxxxxxxxxxxxxxxxxxxxxxxxx" :> 79)

WsTok ==
    {" ", "               "}

DigitTok ==
    {"1", "12", "5"}

WordTok ==
    {"1", "12", "5", "BibTeX", "Latexmk", "Overfull", "Underfull", "amsmath", "badness",
     "ext4", "makeindex", "pdfTeXk", "style", "wide",
     "xxxxxxxxxxxxxxxxxxxxxxxxxxxxxxxxxxxxxxxxxxxxxxxxxxxxxxxxxxxxxxxxxxxxxxxxxxxxxxx"}

FileExtTok ==
    {" plain.bst", ", Version 0.99c", ", Version 3.141592", ", version 2.15",
     "./test.tex", "/usr/share/texmf/article.cls", "3.5pt", "refs.bib", "test.idx",
     "test.log", "test.pdf"}

FileTok ==
    {"---", "---------", ".", "./test.tex", "/usr/share/texmf/article.cls", "1", "12",
     "3.5pt", "5", "BibTeX", "Latexmk", "Overfull", "Underfull", "Warning--", "amsmath",
     "badness", "ext4", "makeindex", "pdfTeXk", "refs.bib", "style", "test.idx",
     "test.log", "test.pdf", "wide",
     "xxxxxxxxxxxxxxxxxxxxxxxxxxxxxxxxxxxxxxxxxxxxxxxxxxxxxxxxxxxxxxxxxxxxxxxxxxxxxxx"}

ErrorTok ==
    {" Fatal error occurred", "Error: pdflatex", "LaTeX Error:"}

ColonTok ==
    {" Warning:", ":", ": All targets ", ": applying rule 'pdflatex'...",
     ": destination with the same identifier", "Error: pdflatex", "LaTeX Error:",
     "LaTeX Warning:"}

IntroTok ==
    {"pdfTeX warning"}

LetterEndTok ==
    {" Fatal error occurred", " INTERNAL ERROR in format file", " are up-to-date",
     " failed", " file", " in paragraph", " not found", " page, 1234 bytes",
     " plain.bst", ", Version 0.99c", "./test.tex", "/usr/share/texmf/article.cls",
     "3.5pt", ": destination with the same identifier", "BibTeX", "Error: pdflatex",
     "Latexmk", "Overfull", "Run number", "Some unclassified output", "Underfull",
     "amsmath", "badness", "makeindex", "pdfTeX warning", "pdfTeXk", "refs.bib",
     "style", "test.idx", "test.log", "test.pdf", "wide",
     "xxxxxxxxxxxxxxxxxxxxxxxxxxxxxxxxxxxxxxxxxxxxxxxxxxxxxxxxxxxxxxxxxxxxxxxxxxxxxxx"}

(* ------------------------------- text ---------------------------------- *)

NL == "\n"

AnyTok == Tokens \ {NL}

NoColonTok == AnyTok \ ColonTok

\* A piece of text: token t of physical line k; h = 1 when LinebreakWarning
\* cut the piece off its line as the second statement, 0 otherwise.
Piece(t, k, h) == [t |-> t, k |-> k, h |-> h]

\* Physical line number k of the stream, holding sample line `name`.
PhysLine(name, k) ==
    [j \in 1..Len(LineToks[name]) |-> Piece(LineToks[name][j], k, 0)]

\* The characters of a text, without their origin.
Str(s) == [i \in 1..Len(s) |-> s[i].t]

\* len(s)
RECURSIVE StrLen(_)
StrLen(s) == IF s = <<>> THEN 0 ELSE TokLen[Head(s).t] + StrLen(Tail(s))

\* s.rstrip("\n")
RECURSIVE rstripNL(_)
rstripNL(s) ==
    IF s # <<>> /\ s[Len(s)].t = NL THEN rstripNL(SubSeq(s, 1, Len(s) - 1)) ELSE s

\* s.lstrip()
RECURSIVE lstrip(_)
lstrip(s) ==
    IF s # <<>> /\ Head(s).t \in WsTok \cup {NL} THEN lstrip(Tail(s)) ELSE s

\* s.startswith(p), p a sequence of tokens
startswith(s, p) == Len(s) >= Len(p) /\ \A i \in 1..Len(p) : s[i].t = p[i]

\* s.startswith("  ")
startswithTwoSpaces(s) == s # <<>> /\ s[1].t \in WsTok /\ TokLen[s[1].t] >= 2

\* s.strip('"')
RECURSIVE stripQuotes(_)
stripQuotes(s) ==
    IF s # <<>> /\ Head(s) = "\"" THEN stripQuotes(Tail(s))
    ELSE IF s # <<>> /\ s[Len(s)] = "\"" THEN stripQuotes(SubSeq(s, 1, Len(s) - 1))
    ELSE s

(* ------------------------- regular expressions ------------------------- *)

One(S) == [a |-> "one", v |-> S, alts |-> {}]
Star(S) == [a |-> "star", v |-> S, alts |-> {}]
End == [a |-> "end", v |-> {}, alts |-> {}]
Alt(A) == [a |-> "alt", v |-> {}, alts |-> A]

\* Whether atoms p[i..] match s from piece n on (re.match: anchored at the
\* start, free at the end).
RECURSIVE MatchFrom(_, _, _, _)
MatchFrom(p, i, s, n) ==
    IF i > Len(p) THEN TRUE
    ELSE CASE p[i].a = "one" ->
                 n <= Len(s) /\ s[n].t \in p[i].v /\ MatchFrom(p, i + 1, s, n + 1)
           [] p[i].a = "star" ->
                 \/ MatchFrom(p, i + 1, s, n)
                 \/ n <= Len(s) /\ s[n].t \in p[i].v /\ MatchFrom(p, i, s, n + 1)
           [] p[i].a = "end" ->
                 n > Len(s) /\ MatchFrom(p, i + 1, s, n)
           [] p[i].a = "alt" ->
                 \E alt \in p[i].alts :
                     MatchFrom(alt \o SubSeq(p, i + 1, Len(p)), 1, s, n)

\* pat.match(line)
match(pat, line) == MatchFrom(pat, 1, line, 1)

\* The index of the first piece at or after n whose token is in S, 0 if none.
RECURSIVE IndexOf(_, _, _)
IndexOf(s, S, n) ==
    IF n > Len(s) THEN 0 ELSE IF s[n].t \in S THEN n ELSE IndexOf(s, S, n + 1)

MkIndexParser_patterns ==
    <<
    \* Input index file (.*) not found
    [pat |-> <<One({"Input index file "}), Star(AnyTok), One({" not found"})>>,
     fun |-> "noInputError"]
    >>

BibTexParser_patterns ==
    <<
    \* Warning--(.*)
    [pat |-> <<One({"Warning--"})>>,
     fun |-> "warning"],
    \* --line (\d+) of file (.*)
    [pat |-> <<One({"--line "}), One(DigitTok), One({" of file "})>>,
     fun |-> "handleFileLineReference"],
    \* I found no \\\w+ command
    [pat |-> <<One({"I found no "}), One(WordTok), One({" command"})>>,
     fun |-> "warning"],
    \* I couldn't open style file
    [pat |-> <<One({"I couldn't open "}), One({"style"}), One({" file"})>>,
     fun |-> "error"],
    \* I couldn't open \w+ file
    [pat |-> <<One({"I couldn't open "}), One(WordTok), One({" file"})>>,
     fun |-> "error"],
    \* This is BibTeX
    [pat |-> <<One({"This is "}), One({"BibTeX"})>>,
     fun |-> "info"],
    \* The style
    [pat |-> <<One({"The style"})>>,
     fun |-> "info"],
    \* Database
    [pat |-> <<One({"Database"})>>,
     fun |-> "info"],
    \* ---
    [pat |-> <<One({"---"})>>,
     fun |-> "finishRun"]
    >>

LaTexParser_patterns ==
    <<
    \* This is
    [pat |-> <<One({"This is "})>>,
     fun |-> "info"],
    \* Document Class
    [pat |-> <<One({"Document Class"})>>,
     fun |-> "info"],
    \* .*\<use (.*?)\>
    [pat |-> <<Star(AnyTok), One({"<use "}), Star(AnyTok), One({">"})>>,
     fun |-> "detectInclude"],
    \* Output written on (.*) (\(.*\))
    [pat |-> <<One({"Output written on "}), Star(AnyTok), One({" "}), One({"("}), Star(AnyTok), One({")"})>>,
     fun |-> "outputInfo"],
    \* LaTeX Warning:.*?input line (\d+)(\.|$)
    [pat |-> <<One({"LaTeX Warning:"}), Star(AnyTok), One({"input line "}), One(DigitTok), Alt({<<One({"."})>>, <<End>>})>>,
     fun |-> "handleWarning"],
    \* Package \w+ Warning:.*?input line (\d+)(\.|$)
    [pat |-> <<One({"Package "}), One(WordTok), One({" Warning:"}), Star(AnyTok), One({"input line "}), One(DigitTok), Alt({<<One({"."})>>, <<End>>})>>,
     fun |-> "handleWarning"],
    \* LaTeX Warning:.*
    [pat |-> <<One({"LaTeX Warning:"})>>,
     fun |-> "warning"],
    \* Package \w+ Warning:.*
    [pat |-> <<One({"Package "}), One(WordTok), One({" Warning:"})>>,
     fun |-> "warning"],
    \* ([^:]*):(\d+):\s+(pdfTeX warning.*)
    [pat |-> <<Star(NoColonTok), One({":"}), One(DigitTok), One({":"}), One(WsTok), Star(WsTok), One({"pdfTeX warning"})>>,
     fun |-> "handleFileLineWarning"],
    \* .*pdfTeX warning.*
    [pat |-> <<Star(AnyTok), One({"pdfTeX warning"})>>,
     fun |-> "warning"],
    \* LaTeX Font Warning:.*
    [pat |-> <<One({"LaTeX Font Warning:"})>>,
     fun |-> "warning"],
    \* Overfull.*wide
    [pat |-> <<One({"Overfull"}), Star(AnyTok), One({"wide"})>>,
     fun |-> "warn2"],
    \* Underfull.*badness
    [pat |-> <<One({"Underfull"}), Star(AnyTok), One({"badness"})>>,
     fun |-> "warn2"],
    \* ([^:]*):(\d+): LaTeX Error:(.*)
    [pat |-> <<Star(NoColonTok), One({":"}), One(DigitTok), One({":"}), One({" "}), One({"LaTeX Error:"})>>,
     fun |-> "handleError"],
    \* ([^:]*):(\d+): (Emergency stop)
    [pat |-> <<Star(NoColonTok), One({":"}), One(DigitTok), One({":"}), One({" "}), One({"Emergency stop"})>>,
     fun |-> "handleError"],
    \* .*?([^:]+\.\w+):(\d+):\s+(.*)
    [pat |-> <<Star(AnyTok), One(FileExtTok), One({":"}), One(DigitTok), One({":"}), One(WsTok)>>,
     fun |-> "handleError"],
    \* Transcript written on (.*)\.$
    [pat |-> <<One({"Transcript written on "}), Star(AnyTok), One({"."}), End>>,
     fun |-> "finishRun"],
    \* Error: pdflatex
    [pat |-> <<One({"Error: pdflatex"})>>,
     fun |-> "pdfLatexError"],
    \* \!.*
    [pat |-> <<One({"!"})>>,
     fun |-> "handleOldStyleErrors"],
    \* \s+==>
    [pat |-> <<One(WsTok), Star(WsTok), One({"==>"})>>,
     fun |-> "fatal"]
    >>

ParseLatexMk_patterns ==
    <<
    \* This is (pdfTeXk|latex2e|latex|XeTeXk)
    [pat |-> <<One({"This is "}), One({"pdfTeXk", "latex2e", "latex", "XeTeXk"})>>,
     fun |-> "startLatex"],
    \* This is BibTeX
    [pat |-> <<One({"This is "}), One({"BibTeX"})>>,
     fun |-> "startBibtex"],
    \* ^Latexmk: All targets \(.*?\) are up-to-date
    [pat |-> <<One({"Latexmk"}), One({": All targets "}), One({"("}), Star(AnyTok), One({")"}), One({" are up-to-date"})>>,
     fun |-> "finishRun"],
    \* This is makeindex
    [pat |-> <<One({"This is "}), One({"makeindex"})>>,
     fun |-> "startBibtex"],
    \* ^Latexmk
    [pat |-> <<One({"Latexmk"})>>,
     fun |-> "ltxmk"],
    \* Run number
    [pat |-> <<One({"Run number"})>>,
     fun |-> "newRun"]
    >>

TexParser_patterns == <<>>

\* self.patterns of a parser of class `kind`
patterns(kind) ==
    CASE kind = "MkIndexParser" -> MkIndexParser_patterns
      [] kind = "BibTexParser" -> BibTexParser_patterns
      [] kind = "LaTexParser" -> LaTexParser_patterns
      [] kind = "ParseLatexMk" -> ParseLatexMk_patterns
      [] OTHER -> TexParser_patterns

(* ------------------------- the process output -------------------------- *)

\* The streams the properties below name.  The names of the lines read so far
\* are recorded in stream.seen while they begin one of these streams, and
\* all of them where stream.log is set.
Scenarios ==
    { <<"BibBanner", "BibWarn", "AllTargets">>,
      <<"LtxBanner">>,
      <<"IdxBanner">>,
      <<"BibRef3", "BibWarn">>,
      <<"RunNumber", "BibBanner", "BibErr", "Sep", "Other", "RunNumber", "RunNumber">> }

Untracked == <<"*">>

IsPrefix(a, b) == Len(a) <= Len(b) /\ SubSeq(b, 1, Len(a)) = a

Track(seen, name) ==
    IF seen # Untracked /\ \E sc \in Scenarios : IsPrefix(Append(seen, name), sc)
    THEN Append(seen, name)
    ELSE Untracked

\* The empty string readline() returns at end of input.
EOF == <<>>

\* stdout.readline() of the sub-process: the next physical line, whichever
\* the process prints, or end of input; after end of input, end of input.
readline(in) ==
    LET atEnd == [line |-> EOF, in |-> [in EXCEPT !.eof = TRUE]]
    IN  IF in.eof \/ in.pos >= in.max
        THEN {atEnd}
        ELSE {atEnd} \cup
             { [line |-> PhysLine(n, in.pos + 1),
                in |-> [in EXCEPT !.pos = @ + 1,
                                  !.seen = IF in.log THEN Append(@, n) ELSE Track(@, n)]]
               : n \in in.vocab }

(* ------------------------ the stream decorators ------------------------ *)
(* A decorator's readline is the set of its possible results, one for each *)
(* choice of the lines it reads: [line, w, in], the statement, the         *)
(* decorators' buffers and the process output after the call.              *)
(* w.over tells whether a decorator ever assigned its buffer while a       *)
(* statement was in it.                                                    *)

\* The line length at which TeX breaks a line.
Width80 == 80

\* NoLinebreak80_loop changed: at the end of input the empty read is passed
\* on, whatever was accumulated.
RECURSIVE NoLinebreak80_loop_eof(_, _)
NoLinebreak80_loop_eof(statement, in) ==
    UNION { IF r.line = EOF
            THEN {[line |-> EOF, in |-> r.in]}
            ELSE IF StrLen(r.line) = Width80
            THEN NoLinebreak80_loop_eof(statement \o rstripNL(r.line), r.in)
            ELSE {[line |-> statement \o r.line, in |-> r.in]}
          : r \in readline(in) }

\* NoLinebreak80_loop changed: an 80-character line is appended with its
\* terminator.
RECURSIVE NoLinebreak80_loop_keepNL(_, _)
NoLinebreak80_loop_keepNL(statement, in) ==
    UNION { IF r.line = EOF
            THEN {[line |-> statement, in |-> r.in]}
            ELSE IF StrLen(r.line) = Width80
            THEN NoLinebreak80_loop_keepNL(statement \o r.line, r.in)
            ELSE {[line |-> statement \o r.line, in |-> r.in]}
          : r \in readline(in) }

\* NoLinebreak80.readline
RECURSIVE NoLinebreak80_loop(_, _)
NoLinebreak80_loop(statement, in) ==
    UNION { IF r.line = EOF
            THEN {[line |-> statement, in |-> r.in]}
            ELSE IF StrLen(r.line) = Width80
            THEN NoLinebreak80_loop(statement \o rstripNL(r.line), r.in)
            ELSE {[line |-> statement \o r.line, in |-> r.in]}
          : r \in readline(in) }

NoLinebreak80_readline(in) == NoLinebreak80_loop(<<>>, in)

\* LinebreakWarning.pattern,
\* (.*[^a-zA-Z])([a-zA-Z]*[Tt]e[Xx] (?:warning|error).*): the piece at which
\* group 2 begins (the last one possible, the first group being greedy), 0
\* when the line does not match.
LinebreakWarning_pattern(line) ==
    LET at == { i \in 2..Len(line) :
                  /\ line[i].t \in IntroTok
                  /\ line[i - 1].t \notin LetterEndTok
                  /\ \A m \in 1..(i - 1) : line[m].t # NL }
    IN  IF at = {} THEN 0 ELSE CHOOSE i \in at : \A m \in at : m <= i

\* LinebreakWarning_group2 changed: match.group(1) is buffered.
LinebreakWarning_group1(line, i) == SubSeq(line, 1, i - 1)

\* match.group(2): to the end of the line, its terminator left out.
LinebreakWarning_group2(line, i) ==
    LET nl == IndexOf(line, {NL}, i)
        e == IF nl = 0 THEN Len(line) ELSE nl - 1
    IN  [m \in 1..(e - i + 1) |-> [line[i + m - 1] EXCEPT !.h = 1]]

\* LinebreakWarning_readline changed: match.group(2) is not kept.
LinebreakWarning_readline_dropped(w, in) ==
    IF w.lbw # <<>>
    THEN {[line |-> w.lbw, w |-> [w EXCEPT !.lbw = <<>>], in |-> in]}
    ELSE { IF r.line = EOF
           THEN [line |-> r.line, w |-> w, in |-> r.in]
           ELSE IF LinebreakWarning_pattern(r.line) # 0
           THEN [line |-> SubSeq(r.line, 1, LinebreakWarning_pattern(r.line) - 1),
                 w |-> w, in |-> r.in]
           ELSE [line |-> r.line, w |-> w, in |-> r.in]
         : r \in NoLinebreak80_readline(in) }

\* LinebreakWarning.readline
LinebreakWarning_readline(w, in) ==
    IF w.lbw # <<>>
    THEN {[line |-> w.lbw, w |-> [w EXCEPT !.lbw = <<>>], in |-> in]}
    ELSE { IF r.line = EOF
           THEN [line |-> r.line, w |-> w, in |-> r.in]
           ELSE IF LinebreakWarning_pattern(r.line) # 0
           THEN [line |-> SubSeq(r.line, 1, LinebreakWarning_pattern(r.line) - 1),
                 w |-> [w EXCEPT !.lbw =
                          LinebreakWarning_group2(r.line, LinebreakWarning_pattern(r.line)),
                                 !.over = @ \/ w.lbw # <<>>],
                 in |-> r.in]
           ELSE [line |-> r.line, w |-> w, in |-> r.in]
         : r \in NoLinebreak80_readline(in) }

\* The space a merger puts between a statement and its continuation.
Space == <<Piece(" ", 0, 0)>>

\* NoMultilineWarning_getline changed: the buffer is not looked at, the
\* next statement comes from the decorator below.
NoMultilineWarning_getline_below(w, in) == LinebreakWarning_readline(w, in)

\* NoMultilineWarning.getline
NoMultilineWarning_getline(w, in) ==
    IF w.nmw # <<>>
    THEN {[line |-> w.nmw, w |-> [w EXCEPT !.nmw = <<>>], in |-> in]}
    ELSE LinebreakWarning_readline(w, in)

\* NoMultilineWarning_loop changed: the continuation is appended as it is,
\* its leading white space kept.
RECURSIVE NoMultilineWarning_loop_nolstrip(_, _, _)
NoMultilineWarning_loop_nolstrip(statement, w, in) ==
    UNION { IF startswithTwoSpaces(g.line)
            THEN NoMultilineWarning_loop_nolstrip(
                     rstripNL(statement) \o Space \o g.line, g.w, g.in)
            ELSE {[line |-> statement, w |-> [g.w EXCEPT !.nmw = g.line,
                                       !.over = @ \/ g.w.nmw # <<>>], in |-> g.in]}
          : g \in NoMultilineWarning_getline(w, in) }

\* NoMultilineWarning_loop changed: the line that ends the warning is not
\* kept.
RECURSIVE NoMultilineWarning_loop_unkept(_, _, _)
NoMultilineWarning_loop_unkept(statement, w, in) ==
    UNION { IF startswithTwoSpaces(g.line)
            THEN NoMultilineWarning_loop_unkept(
                     rstripNL(statement) \o Space \o lstrip(g.line), g.w, g.in)
            ELSE {[line |-> statement, w |-> g.w, in |-> g.in]}
          : g \in NoMultilineWarning_getline(w, in) }

\* NoMultilineWarning.readline, the loop "while continuation"
RECURSIVE NoMultilineWarning_loop(_, _, _)
NoMultilineWarning_loop(statement, w, in) ==
    UNION { IF startswithTwoSpaces(g.line)
            THEN NoMultilineWarning_loop(
                     rstripNL(statement) \o Space \o lstrip(g.line), g.w, g.in)
            ELSE {[line |-> statement, w |-> [g.w EXCEPT !.nmw = g.line,
                                       !.over = @ \/ g.w.nmw # <<>>], in |-> g.in]}
          : g \in NoMultilineWarning_getline(w, in) }

\* NoMultilineWarning_readline changed: a continuation is looked for after
\* every line, a warning or not.
NoMultilineWarning_readline_any(w, in) ==
    UNION { IF g.line = EOF
            THEN {g}
            ELSE NoMultilineWarning_loop(g.line, g.w, g.in)
          : g \in NoMultilineWarning_getline(w, in) }

\* NoMultilineWarning.readline
NoMultilineWarning_readline(w, in) ==
    UNION { IF g.line = EOF
            THEN {g}
            ELSE IF startswith(g.line, <<"LaTeX Warning:">>)
            THEN NoMultilineWarning_loop(g.line, g.w, g.in)
            ELSE {g}
          : g \in NoMultilineWarning_getline(w, in) }

\* NoMultilinePackageWarning.firstlinere, Package (\w+) Warning:.*
NoMultilinePackageWarning_firstlinere ==
    <<One({"Package "}), One(WordTok), One({" Warning:"})>>

\* NoMultilinePackageWarning.getline
NoMultilinePackageWarning_getline(w, in) ==
    IF w.nmpw # <<>>
    THEN {[line |-> w.nmpw, w |-> [w EXCEPT !.nmpw = <<>>], in |-> in]}
    ELSE NoMultilineWarning_readline(w, in)

\* NoMultilinePackageWarning_loop changed: a line that begins with the name
\* of any package in parentheses continues the warning.
RECURSIVE NoMultilinePackageWarning_loop_anyName(_, _, _, _)
NoMultilinePackageWarning_loop_anyName(statement, contstart, w, in) ==
    UNION { IF Len(g.line) >= 3 /\ g.line[1].t = "(" /\ g.line[3].t = ")"
            THEN NoMultilinePackageWarning_loop_anyName(
                     rstripNL(statement) \o Space
                       \o lstrip(SubSeq(g.line, Len(contstart) + 1, Len(g.line))),
                     contstart, g.w, g.in)
            ELSE {[line |-> statement, w |-> [g.w EXCEPT !.nmpw = g.line,
                                       !.over = @ \/ g.w.nmpw # <<>>], in |-> g.in]}
          : g \in NoMultilinePackageWarning_getline(w, in) }

\* NoMultilinePackageWarning.readline, the loop "while continuation"
RECURSIVE NoMultilinePackageWarning_loop(_, _, _, _)
NoMultilinePackageWarning_loop(statement, contstart, w, in) ==
    UNION { IF startswith(g.line, contstart)
            THEN NoMultilinePackageWarning_loop(
                     rstripNL(statement) \o Space
                       \o lstrip(SubSeq(g.line, Len(contstart) + 1, Len(g.line))),
                     contstart, g.w, g.in)
            ELSE {[line |-> statement, w |-> [g.w EXCEPT !.nmpw = g.line,
                                       !.over = @ \/ g.w.nmpw # <<>>], in |-> g.in]}
          : g \in NoMultilinePackageWarning_getline(w, in) }

\* NoMultilinePackageWarning.readline
NoMultilinePackageWarning_readline(w, in) ==
    UNION { IF g.line = EOF
            THEN {g}
            ELSE IF match(NoMultilinePackageWarning_firstlinere, g.line)
            THEN NoMultilinePackageWarning_loop(
                     g.line, <<"(", g.line[2].t, ")">>, g.w, g.in)
            ELSE {g}
          : g \in NoMultilinePackageWarning_getline(w, in) }

(* ------------------------------ parsers -------------------------------- *)

\* fileName=None
None == "<None>"

\* The file names a parser is constructed with.
FileNames == {None, "test.tex"}

\* A file name with another extension than .tex, the one of the class file
\* the sample output opens.
ClassFileName == "my.cls"

\* os.path.splitext(name)[1]
splitext_ext(name) ==
    CASE name \in {"./test.tex", "test.tex"} -> ".tex"
      [] name \in {"/usr/share/texmf/article.cls", "my.cls"} -> ".cls"
      [] name = "3.5pt" -> ".5pt"
      [] name = "refs.bib" -> ".bib"
      [] name = "test.idx" -> ".idx"
      [] name = "test.log" -> ".log"
      [] name = "test.pdf" -> ".pdf"
      [] OTHER -> ""

\* os.path.splitext(name)[0] of a parser's file name
splitext_root(name) ==
    CASE name = "test.tex" -> "test"
      [] name = "my.cls" -> "my"
      [] OTHER -> name

\* TexParser.setInput: the stream as it is.
TexParser_setInput ==
    [cls |-> "file", lbw |-> <<>>, nmw |-> <<>>, nmpw |-> <<>>, over |-> FALSE]

\* LaTexParser.setInput: the stream behind the four decorators, their
\* buffers empty.
LaTexParser_setInput ==
    [cls |-> "NoMultilinePackageWarning", lbw |-> <<>>, nmw |-> <<>>, nmpw |-> <<>>,
     over |-> FALSE]

\* io.TextIOWrapper, the class the decorators extend: an instance's buffer is
\* an attribute a subclass may assign in the io module of Python 2.6 and 3.0,
\* and read-only in the later ones.
TextIOWrapper_buffer == {"attribute", "readonly"}

\* LinebreakWarning.__init__, "self.buffer = """: the exception it raises, ""
\* if none.
LinebreakWarning_init(io) == IF io = "readonly" THEN "AttributeError" ELSE ""

\* self.setInput(input_stream) in the constructor of a parser: the exception
\* it raises, "" if none.
setInput(kind, io) == IF kind = "LaTexParser" THEN LinebreakWarning_init(io) ELSE ""

\* self.input_stream.readline()
input_stream_readline(w, in) ==
    IF w.cls = "NoMultilinePackageWarning"
    THEN NoMultilinePackageWarning_readline(w, in)
    ELSE {[line |-> r.line, w |-> w, in |-> r.in] : r \in readline(in)}

\* __init__ of the parser classes.  pc is the place of parseStream the parser
\* is at and line the statement it holds; errDisp, warnDisp count the
\* statements it and its delegates dispatched to an error or a warning
\* handler, fatalDisp tells whether one of them dispatched a fatal message,
\* runDisp counts the statements it dispatched to newRun,
\* badRuns the calls of badRun, endedAt is the physical line that
\* set done.
init(kind, verbose, fileName) ==
    [kind |-> kind,
     fileName |-> fileName,
     input_stream |-> IF kind = "LaTexParser" THEN LaTexParser_setInput
                      ELSE TexParser_setInput,
     done |-> FALSE,
     verbose |-> verbose,
     numErrs |-> 0,
     numWarns |-> 0,
     isFatal |-> FALSE,
     numRuns |-> 0,
     outputFile |-> <<>>,
     fileStack |-> IF kind = "LaTexParser" /\ fileName # None
                   THEN <<fileName>> ELSE <<>>,
     currentFile |-> "",
     exts |-> IF kind # "LaTexParser" THEN {}
              ELSE IF fileName # None THEN {".tex", splitext_ext(fileName)}
              ELSE {".tex"},
     pc |-> "readline",
     line |-> <<>>,
     errDisp |-> 0,
     warnDisp |-> 0,
     fatalDisp |-> FALSE,
     runDisp |-> 0,
     badRuns |-> 0,
     endedAt |-> 0]

\* What a handler prints: the class of the paragraph and, where the whole
\* statement is printed, the statement.
Ev(cls, text) == [ev |-> cls, text |-> text, file |-> <<>>, line |-> <<>>]

\* What a handler prints with a link made by make_link(file, line).
EvAt(cls, text, file, line) == [ev |-> cls, text |-> text, file |-> file, line |-> line]

\* The result of a handler: the parser, the process output, what was printed,
\* the reports printed (kept in the journal), the class of the sub-parser the
\* handler constructs and runs ("" if none).
Res(f, in, out) == [f |-> f, in |-> in, out |-> out, jr |-> <<>>, call |-> ""]

\* The physical line of the last piece of a statement.
LastLine(line) ==
    LET ks == {line[i].k : i \in 1..Len(line)}
    IN  CHOOSE k \in ks : \A m \in ks : m <= k

\* TexParser.info
info(f, line, in) == Res(f, in, <<Ev("info", Str(line))>>)

\* error changed: the statement is printed and not counted.
error_uncounted(f, line, in) == Res(f, in, <<Ev("error", Str(line))>>)

\* TexParser.error
error(f, line, in) ==
    Res([f EXCEPT !.numErrs = @ + 1], in, <<Ev("error", Str(line))>>)

\* TexParser.warning
warning(f, line, in) ==
    Res([f EXCEPT !.numWarns = @ + 1], in, <<Ev("warning", Str(line))>>)

\* warn2 changed: the notice is counted as a warning.
warn2_counted(f, line, in) ==
    Res([f EXCEPT !.numWarns = @ + 1], in, <<Ev("fmtWarning", Str(line))>>)

\* TexParser.warn2
warn2(f, line, in) == Res(f, in, <<Ev("fmtWarning", Str(line))>>)

\* fatal changed: the fatal message ends the parsing as well.
fatal_done(f, line, in) ==
    Res([f EXCEPT !.isFatal = TRUE, !.done = TRUE], in, <<Ev("error", Str(line))>>)

\* TexParser.fatal
fatal(f, line, in) ==
    Res([f EXCEPT !.isFatal = TRUE], in, <<Ev("error", Str(line))>>)

\* MkIndexParser.noInputError
noInputError(f, line, in) ==
    Res([f EXCEPT !.numErrs = @ + 1], in,
        <<Ev("error", Str(line)), Ev("info", <<"Make sure your latex file includes">>)>>)

\* BibTexParser.handleFileLineReference: m.group(1) is the line, m.group(2)
\* the file (to the end of the statement).
handleFileLineReference(f, line, in) ==
    Res([f EXCEPT !.numWarns = @ + 1], in,
        <<EvAt("link", Str(line), SubSeq(Str(line), 4, Len(line)), <<line[2].t>>)>>)

\* BibTexParser.finishRun
BibTexParser_finishRun(f, line, in) ==
    Res([f EXCEPT !.done = TRUE], in, <<>>)

\* LaTexParser.detectInclude
detectInclude(f, line, in) == Res(f, in, <<Ev("include", Str(line))>>)

\* LaTexParser.handleWarning: m.group(1) is the number after the first
\* "input line" that a number and then "." or the end follows.
handleWarning(f, line, in) ==
    LET at == { i \in 1..Len(line) :
                  /\ line[i].t = "input line "
                  /\ i + 1 <= Len(line) /\ line[i + 1].t \in DigitTok
                  /\ (i + 2 > Len(line) \/ line[i + 2].t = ".") }
        i == CHOOSE n \in at : \A m \in at : n <= m
    IN  Res([f EXCEPT !.numWarns = @ + 1], in,
            <<EvAt("warning", Str(line),
                   IF f.currentFile = "" THEN <<>> ELSE <<f.currentFile>>,
                   <<line[i + 1].t>>)>>)

\* LaTexParser.handleFileLineWarning: file, line and message are the groups
\* before the first and the second colon and after the white space.
handleFileLineWarning(f, line, in) ==
    LET c == IndexOf(line, {":"}, 1)
    IN  Res([f EXCEPT !.numWarns = @ + 1], in,
            <<EvAt("warning", SubSeq(Str(line), IndexOf(line, {"pdfTeX warning"}, 1), Len(line)),
                   SubSeq(Str(line), 1, c - 1), <<line[c + 1].t>>)>>)

\* LaTexParser.handleError: m.group(2) is the line between the first two
\* colons a number stands between, m.group(1) the file before them (it holds
\* no colon), m.group(3) the message.
handleError(f, line, in) ==
    LET at == { i \in 2..(Len(line) - 2) :
                  line[i].t = ":" /\ line[i + 1].t \in DigitTok /\ line[i + 2].t = ":" }
        c == CHOOSE n \in at : \A m \in at : n <= m
        colons == { i \in 1..(c - 1) : line[i].t \in ColonTok }
        b == IF colons = {} THEN 1 ELSE 1 + CHOOSE n \in colons : \A m \in colons : m <= n
    IN  Res([f EXCEPT !.numErrs = @ + 1], in,
            <<EvAt("error", SubSeq(Str(line), c + 3, Len(line)),
                   SubSeq(Str(line), b, c - 1), <<line[c + 1].t>>)>>)

\* LaTexParser.finishRun
LaTexParser_finishRun(f, line, in) ==
    Res([f EXCEPT !.done = TRUE], in,
        <<EvAt("transcript", <<>>,
               stripQuotes(SubSeq(Str(line), 2, Len(line) - 1)), <<"1">>)>>)

\* LaTexParser.outputInfo: m.group(1) is what stands between "Output written
\* on " and the last " (".
outputInfo(f, line, in) ==
    LET at == { i \in 2..(Len(line) - 1) : line[i].t = " " /\ line[i + 1].t = "(" }
        e == CHOOSE n \in at : \A m \in at : m <= n
        name == stripQuotes(SubSeq(Str(line), 2, e - 1))
    IN  Res([f EXCEPT !.outputFile = name], in, <<EvAt("info", Str(line), name, <<>>)>>)

\* LaTexParser.handleOldStyleErrors
handleOldStyleErrors(f, line, in) ==
    IF \E i \in 1..Len(line) : line[i].t \in ErrorTok
    THEN Res([f EXCEPT !.numErrs = @ + 1], in, <<Ev("error", Str(line))>>)
    ELSE Res([f EXCEPT !.numWarns = @ + 1], in, <<Ev("warning", Str(line))>>)

\* pdfLatexError changed: the statement after the message is not read.
pdfLatexError_unread(f, line, in) ==
    {Res([f EXCEPT !.numErrs = @ + 1], in, <<Ev("error", Str(line))>>)}

\* LaTexParser.pdfLatexError: one result for each line the extra readline
\* may return.
pdfLatexError(f, line, in) ==
    { IF r.line # EOF /\ startswith(r.line, <<" ", "==>", " Fatal error occurred">>)
      THEN Res([f EXCEPT !.numErrs = @ + 1, !.input_stream = r.w, !.isFatal = TRUE],
               r.in, <<Ev("error", Str(line) \o Str(rstripNL(r.line)))>>)
      ELSE Res([f EXCEPT !.numErrs = @ + 1, !.input_stream = r.w],
               r.in, <<Ev("error", Str(line))>>)
    : r \in input_stream_readline(f.input_stream, in) }

\* ParseLatexMk.startBibtex, to the call of bp.parseStream()
startBibtex(f, line, in) ==
    [Res(f, in, <<Ev("bibtex", <<>>)>>)
       EXCEPT !.call = "BibTexParser"]

\* ParseLatexMk.startLatex, to the call of bp.parseStream()
startLatex(f, line, in) ==
    [Res(f, in, <<Ev("latex", <<>>)>>)
       EXCEPT !.call = "LaTexParser"]

\* foldCounts changed: the delegate's warnings are not added.
foldCounts_errs(f, e, w) == [f EXCEPT !.numErrs = @ + e]

\* foldCounts changed: the delegate's counts replace the caller's.
foldCounts_replace(f, e, w) == [f EXCEPT !.numErrs = e, !.numWarns = w]

\* ParseLatexMk.startBibtex and startLatex, from the return of
\* bp.parseStream(): e and w are the delegate's counts.
foldCounts(f, e, w) == [f EXCEPT !.numErrs = @ + e, !.numWarns = @ + w]

\* newRun changed: the counts are reported and kept.
newRun_keep(f, line, in) ==
    [Res([f EXCEPT !.numRuns = @ + 1], in,
         IF f.numRuns > 0 THEN <<Ev("hr", <<>>)>> ELSE <<>>)
       EXCEPT !.jr = IF f.numRuns > 0
                     THEN <<[ev |-> "report", errs |-> f.numErrs,
                             warns |-> f.numWarns, run |-> f.numRuns]>>
                     ELSE <<>>]

\* newRun changed: the run is not counted.
newRun_uncounted(f, line, in) ==
    [Res([f EXCEPT !.numWarns = 0, !.numErrs = 0], in,
         IF f.numRuns > 0 THEN <<Ev("hr", <<>>)>> ELSE <<>>)
       EXCEPT !.jr = IF f.numRuns > 0
                     THEN <<[ev |-> "report", errs |-> f.numErrs,
                             warns |-> f.numWarns, run |-> f.numRuns]>>
                     ELSE <<>>]

\* newRun changed: the counts are reported at the first marker too.
newRun_first(f, line, in) ==
    [Res([f EXCEPT !.numWarns = 0, !.numErrs = 0, !.numRuns = @ + 1], in,
         <<Ev("hr", <<>>)>>)
       EXCEPT !.jr = <<[ev |-> "report", errs |-> f.numErrs,
                        warns |-> f.numWarns, run |-> f.numRuns]>>]

\* ParseLatexMk.newRun
newRun(f, line, in) ==
    [Res([f EXCEPT !.numWarns = 0, !.numErrs = 0, !.numRuns = @ + 1], in,
         IF f.numRuns > 0 THEN <<Ev("hr", <<>>)>> ELSE <<>>)
       EXCEPT !.jr = IF f.numRuns > 0
                     THEN <<[ev |-> "report", errs |-> f.numErrs,
                             warns |-> f.numWarns, run |-> f.numRuns]>>
                     ELSE <<>>]

\* ParseLatexMk.ltxmk
ltxmk(f, line, in) == Res(f, in, <<Ev("ltxmk", Str(line))>>)

\* ParseLatexMk_finishRun changed: done is set and nothing is printed.
ParseLatexMk_finishRun_silent(f, line, in) ==
    [Res(f, in, <<>>) EXCEPT !.f.done = TRUE]

\* ParseLatexMk.finishRun
ParseLatexMk_finishRun(f, line, in) ==
    LET r == ltxmk(f, line, in) IN [r EXCEPT !.f.done = TRUE]

\* fun(myMatch, line), fun the handler of a pattern entry of a parser f.
call(fun, f, line, in) ==
    CASE fun = "info" -> {info(f, line, in)}
      [] fun = "error" -> {error(f, line, in)}
      [] fun = "warning" -> {warning(f, line, in)}
      [] fun = "warn2" -> {warn2(f, line, in)}
      [] fun = "fatal" -> {fatal(f, line, in)}
      [] fun = "noInputError" -> {noInputError(f, line, in)}
      [] fun = "handleFileLineReference" -> {handleFileLineReference(f, line, in)}
      [] fun = "detectInclude" -> {detectInclude(f, line, in)}
      [] fun = "handleWarning" -> {handleWarning(f, line, in)}
      [] fun = "handleFileLineWarning" -> {handleFileLineWarning(f, line, in)}
      [] fun = "handleError" -> {handleError(f, line, in)}
      [] fun = "outputInfo" -> {outputInfo(f, line, in)}
      [] fun = "handleOldStyleErrors" -> {handleOldStyleErrors(f, line, in)}
      [] fun = "pdfLatexError" -> pdfLatexError(f, line, in)
      [] fun = "startBibtex" -> {startBibtex(f, line, in)}
      [] fun = "startLatex" -> {startLatex(f, line, in)}
      [] fun = "newRun" -> {newRun(f, line, in)}
      [] fun = "ltxmk" -> {ltxmk(f, line, in)}
      [] fun = "finishRun" /\ f.kind = "BibTexParser" -> {BibTexParser_finishRun(f, line, in)}
      [] fun = "finishRun" /\ f.kind = "LaTexParser" -> {LaTexParser_finishRun(f, line, in)}
      [] fun = "finishRun" /\ f.kind = "ParseLatexMk" -> {ParseLatexMk_finishRun(f, line, in)}

(* --------------------- LaTexParser: the file stack --------------------- *)

\* filematch.findall(line), ([\(\)])([\w/\.\-]*): the markers of a statement
\* from piece n on, left to right, each with the file name after it.
RECURSIVE filematch(_, _)
filematch(line, n) ==
    IF n > Len(line) THEN <<>>
    ELSE IF line[n].t \in {"(", ")"}
    THEN <<[openclose |-> line[n].t,
            filename |-> IF n + 1 <= Len(line) /\ line[n + 1].t \in FileTok
                         THEN line[n + 1].t ELSE ""]>>
         \o filematch(line, n + 1)
    ELSE filematch(line, n + 1)

\* getLastFile changed: the last entry of the stack, whatever its extension.
getLastFile_last(fileStack, exts) ==
    IF fileStack = <<>> THEN "" ELSE fileStack[Len(fileStack)]

\* LaTexParser.getLastFile
RECURSIVE getLastFile(_, _)
getLastFile(fileStack, exts) ==
    IF fileStack = <<>> THEN ""
    ELSE IF splitext_ext(fileStack[Len(fileStack)]) \in exts
    THEN fileStack[Len(fileStack)]
    ELSE getLastFile(SubSeq(fileStack, 1, Len(fileStack) - 1), exts)

\* LaTexParser.parseLine, the branch of an open marker
openMarker(f, filename) ==
    LET fs == Append(f.fileStack, filename)
        newfile == getLastFile(fs, f.exts)
    IN  [f |-> [f EXCEPT !.fileStack = fs, !.currentFile = newfile],
         out |-> IF newfile # f.currentFile
                 THEN <<Ev("Processing", <<newfile>>)>> ELSE <<>>,
         exc |-> ""]

\* closeMarker changed: the stack is popped without the test of its length,
\* and [].pop() raises IndexError.
closeMarker_unguarded(f) ==
    IF Len(f.fileStack) = 0 THEN [f |-> f, out |-> <<>>, exc |-> "IndexError"]
    ELSE LET fs == SubSeq(f.fileStack, 1, Len(f.fileStack) - 1)
             newfile == getLastFile(fs, f.exts)
         IN  [f |-> [f EXCEPT !.fileStack = fs, !.currentFile = newfile],
              out |-> IF newfile # f.currentFile
                      THEN <<Ev("Resume processing", <<newfile>>)>> ELSE <<>>,
              exc |-> ""]

\* closeMarker changed: the last entry of the stack is never removed.
closeMarker_keepLast(f) ==
    IF Len(f.fileStack) > 1
    THEN LET fs == SubSeq(f.fileStack, 1, Len(f.fileStack) - 1)
             newfile == getLastFile(fs, f.exts)
         IN  [f |-> [f EXCEPT !.fileStack = fs, !.currentFile = newfile],
              out |-> IF newfile # f.currentFile
                      THEN <<Ev("Resume processing", <<newfile>>)>> ELSE <<>>,
              exc |-> ""]
    ELSE [f |-> f, out |-> <<>>, exc |-> ""]

\* LaTexParser.parseLine, the branch of a close marker
closeMarker(f) ==
    IF Len(f.fileStack) > 0
    THEN LET fs == SubSeq(f.fileStack, 1, Len(f.fileStack) - 1)
             newfile == getLastFile(fs, f.exts)
         IN  [f |-> [f EXCEPT !.fileStack = fs, !.currentFile = newfile],
              out |-> IF newfile # f.currentFile
                      THEN <<Ev("Resume processing", <<newfile>>)>> ELSE <<>>,
              exc |-> ""]
    ELSE [f |-> f, out |-> <<>>, exc |-> ""]

\* One marker of LaTexParser.parseLine's loop.
marker(f, m) == IF m.openclose = "(" THEN openMarker(f, m.filename) ELSE closeMarker(f)

\* LaTexParser.parseLine, the loop over the markers ms of a statement: the
\* parser after it, what it printed, the exception that ended it, and one
\* log entry per marker processed.
RECURSIVE trackFiles(_, _)
trackFiles(f, ms) ==
    IF ms = <<>> THEN [f |-> f, out |-> <<>>, exc |-> "", log |-> <<>>]
    ELSE LET s == marker(f, Head(ms))
             entry == [openclose |-> Head(ms).openclose,
                       before |-> f.fileStack, after |-> s.f.fileStack,
                       activeBefore |-> f.currentFile, activeAfter |-> s.f.currentFile,
                       notified |-> Len(s.out), exc |-> s.exc]
         IN  IF s.exc # ""
             THEN [f |-> s.f, out |-> s.out, exc |-> s.exc, log |-> <<entry>>]
             ELSE LET rest == trackFiles(s.f, Tail(ms))
                  IN  [f |-> rest.f, out |-> s.out \o rest.out, exc |-> rest.exc,
                       log |-> <<entry>> \o rest.log]

(* ------------------------ TexParser.parseLine -------------------------- *)

\* parseLine_loop changed: no break, the loop goes on after a match and calls
\* the handler of every entry that matches.
RECURSIVE parseLine_noBreak(_, _, _, _)
parseLine_noBreak(f, line, in, i) ==
    IF i > Len(patterns(f.kind))
    THEN {[f |-> f, in |-> in, out |-> <<>>, jr |-> <<>>, call |-> "", fired |-> <<>>]}
    ELSE IF match(patterns(f.kind)[i].pat, line)
    THEN UNION { { [s EXCEPT !.out = r.out \o @, !.jr = r.jr \o @,
                             !.call = IF r.call # "" THEN r.call ELSE @,
                             !.fired = <<i>> \o @]
                   : s \in parseLine_noBreak(r.f, line, r.in, i + 1) }
                 : r \in call(patterns(f.kind)[i].fun, f, line, in) }
    ELSE parseLine_noBreak(f, line, in, i + 1)

\* TexParser.parseLine, the loop over self.patterns from entry i on: the
\* handler of the first entry that matches is called and the loop left.
\* fired lists the entries whose handler was called.
RECURSIVE parseLine_loop(_, _, _, _)
parseLine_loop(f, line, in, i) ==
    IF i > Len(patterns(f.kind))
    THEN {[f |-> f, in |-> in,
           out |-> IF f.verbose THEN <<Ev("plain", Str(line))>> ELSE <<>>,
           jr |-> <<>>, call |-> "", fired |-> <<>>]}
    ELSE IF match(patterns(f.kind)[i].pat, line)
    THEN { [f |-> r.f, in |-> r.in, out |-> r.out, jr |-> r.jr, call |-> r.call,
            fired |-> <<i>>]
           : r \in call(patterns(f.kind)[i].fun, f, line, in) }
    ELSE parseLine_loop(f, line, in, i + 1)

\* TexParser.parseLine
TexParser_parseLine(f, line, in) == parseLine_loop(f, line, in, 1)

\* parseStream_while changed: "while line".
parseStream_while_line(line, done) == line # EOF

\* parseStream_while changed: "while not self.done".
parseStream_while_notDone(line, done) == ~done

\* The condition of parseStream's loop, "while line and not self.done".
parseStream_while(line, done) == line # EOF /\ ~done

\* afterParseLine changed: the loop is left as soon as done is set.
afterParseLine_break(sub, fun, done) ==
    IF sub # "" THEN fun ELSE IF done THEN "wrapup" ELSE "readline"

\* parseStream, what follows "self.parseLine(line)": the handler's call of
\* bp.parseStream() if it started a sub-parser, and then, whatever done is,
\* "line = self.input_stream.readline()".
afterParseLine(sub, fun, done) == IF sub # "" THEN fun ELSE "readline"

\* LaTexParser.badRun (os.path.splitext(None) raises TypeError) and
\* TexParser.badRun, which the other parsers inherit.
badRun(f) ==
    IF f.kind = "LaTexParser"
    THEN IF f.fileName = None
         THEN [f |-> [f EXCEPT !.badRuns = @ + 1], out |-> <<>>, exc |-> "TypeError"]
         ELSE [f |-> [f EXCEPT !.badRuns = @ + 1],
               out |-> <<EvAt("error", <<"Output of program terminated prematurely">>,
                              <<splitext_root(f.fileName), ".log">>, <<"1">>)>>,
               exc |-> ""]
    ELSE [f |-> [f EXCEPT !.badRuns = @ + 1], out |-> <<>>, exc |-> ""]

\* wrapup changed: numRuns is left as it was counted.
wrapup_asCounted(f) ==
    IF f.done = FALSE THEN badRun(f) ELSE [f |-> f, out |-> <<>>, exc |-> ""]

\* wrapup changed: badRun is called whether done is set or not.
wrapup_badRun(f) ==
    LET b == badRun(f)
    IN  IF b.exc # "" THEN b
        ELSE [b EXCEPT !.f.numRuns = IF @ = 0 THEN 1 ELSE @]

\* TexParser.wrapup
wrapup(f) ==
    LET b == IF f.done = FALSE THEN badRun(f) ELSE [f |-> f, out |-> <<>>, exc |-> ""]
    IN  IF b.exc # "" THEN b
        ELSE [b EXCEPT !.f.numRuns = IF @ = 0 THEN 1 ELSE @]

(* --------------------------- the process result ------------------------- *)

\* What the sub-process may return: success, an error, 127 of a shell that
\* did not find the program, and -9 when signal 9 killed it.
ReturnCodes == {0, 1, 127, -9}

\* stdout.close() of os.popen: None, written <<>>, when the process returned
\* 0, and its return code shifted left by one byte otherwise.
stdout_close(returncode) == IF returncode = 0 THEN <<>> ELSE <<returncode * 256>>

\* runParsedProcess changed: a fatal run leaves the exit code as it is.
runParsedProcess_keepCode(parsed, numRuns, closed) ==
    LET resultcode == IF closed = <<>> THEN 0 ELSE closed[1]
        signalcode == resultcode % 256
        exitcode == resultcode \div 256
        notFound == ~(signalcode > 0) /\ exitcode = 127
    IN  [result |-> [exitcode |-> exitcode, signalcode |-> signalcode,
                     numErrs |-> parsed[2] + IF notFound THEN 1 ELSE 0,
                     numWarns |-> parsed[3], numRuns |-> numRuns, isFatal |-> parsed[1]],
         out |-> (IF parsed[1] THEN <<Ev("error", <<"Fatal error while running">>)>>
                  ELSE <<>>)
                 \o IF signalcode > 0 THEN <<Ev("error", <<"killed by signal">>)>>
                    ELSE IF exitcode = 127 THEN <<Ev("error", <<"was not found">>)>>
                    ELSE IF exitcode > 0 THEN <<Ev("error", <<"exited with error code">>)>>
                    ELSE <<>>]

\* runParsedProcess from "resultcode = stdout.close()" to its return: parsed
\* is what parser.parseStream() returned, numRuns is parser.numRuns and closed
\* what stdout.close() returns.  x & 255 is x % 256 and x >> 8 is x \div 256,
\* for negative x too.
runParsedProcess(parsed, numRuns, closed) ==
    LET resultcode == IF closed = <<>> THEN 0 ELSE closed[1]
        signalcode == resultcode % 256
        exitcode == IF parsed[1] THEN -1 ELSE resultcode \div 256
        notFound == ~(signalcode > 0) /\ exitcode = 127
    IN  [result |-> [exitcode |-> exitcode, signalcode |-> signalcode,
                     numErrs |-> parsed[2] + IF notFound THEN 1 ELSE 0,
                     numWarns |-> parsed[3], numRuns |-> numRuns, isFatal |-> parsed[1]],
         out |-> (IF parsed[1] THEN <<Ev("error", <<"Fatal error while running">>)>>
                  ELSE <<>>)
                 \o IF signalcode > 0 THEN <<Ev("error", <<"killed by signal">>)>>
                    ELSE IF exitcode = 127 THEN <<Ev("error", <<"was not found">>)>>
                    ELSE IF exitcode > 0 THEN <<Ev("error", <<"exited with error code">>)>>
                    ELSE <<>>]

\* TexMate.run_latex: "stat = result.exitcode - result.signalcode".
run_latex_stat(r) == r.exitcode - r.signalcode

(* ---------------------------- the program ------------------------------ *)

VARIABLES
    io,         \* the interpreter's io.TextIOWrapper: buffer "attribute" or "readonly"
    stream,     \* the process output: lines read, end of input, lines seen
    stack,      \* the parsers running, the delegate of stack[i] at i + 1
    out,        \* what the last step printed
    journal,    \* the run reports and premature-end messages printed so far
    exc,        \* the exception that ended the program, "" if none
    result,     \* what the first parser's parseStream returned, <<>> before
    disp,       \* the last dispatch: who, what, which entries matched and fired
    covered,    \* the fragments <<k, h>> of lines dispatched so far
    twice,      \* the fragments dispatched more than once
    handoff,    \* the last return of a delegate and the dispatch after it
    mlog,       \* the markers the last statement of a LaTexParser held
    since,      \* statements dispatched to error/warning handlers since the
                \* last run boundary, by any parser
    processresult,  \* what runParsedProcess returned, <<>> before
    norm        \* a decorator chain read by itself: its buffers, the
                \* statements it returned, whether it returned end of input

vars == <<io, stream, stack, out, journal, exc, result, disp, covered, twice, handoff,
          mlog, since, processresult, norm>>

\* The lines a sub-process may print, by what is run: latexmk running bibtex
\* and makeindex, latexmk running latex, latex alone (its messages, its file
\* markers, its wrapped and multi-line messages), bibtex and makeindex alone.
MkBibLines ==
    {"RunNumber", "BibBanner", "IdxBanner", "BibWarn", "BibErr", "Sep", "AllTargets",
     "MkInfo", "Other"}

MkLtxLines ==
    {"RunNumber", "LtxBanner", "LtxErr", "LtxWarnML", "Cont", "Fatal", "Transcript",
     "AllTargets", "Other"}

LtxLines ==
    {"LtxBanner", "LtxErr", "LtxWarn", "PdfErr", "Fatal", "OldErr", "OldErr2",
     "OldErrUp", "OldFatal", "Overfull", "Output", "Transcript", "Other"}

LtxFileLines ==
    {"Open", "OpenCls", "Close", "AllTargets", "Overfull", "Underfull", "LtxWarn",
     "Transcript"}

LtxWrapLines ==
    {"LtxWarnML", "Cont", "PkgWarn", "PkgCont", "Inline", "Wide80", "Transcript",
     "Other"}

BibLines ==
    {"BibBanner", "BibWarn", "BibErr", "BibRef", "BibRef3", "Sep", "IdxErr", "Other"}

Run(kind, verbose, fileName, vocab, max, buffer) ==
    [kind |-> kind, verbose |-> verbose, fileName |-> fileName, vocab |-> vocab,
     max |-> max, io |-> buffer]

\* The runs: the parser runParsedProcess is given, and the lines the process
\* may print and how many.
Runs ==
    { Run("ParseLatexMk", FALSE, "test.tex", MkBibLines, MaxLen, "readonly") }
    \cup { Run("ParseLatexMk", FALSE, n, MkLtxLines, MaxLatexLen + 1, b)
           : n \in FileNames, b \in TextIOWrapper_buffer }
    \cup { Run("LaTexParser", FALSE, n, v, MaxLatexLen, b)
           : n \in FileNames, v \in {LtxLines, LtxFileLines, LtxWrapLines},
             b \in TextIOWrapper_buffer }
    \cup { Run("LaTexParser", FALSE, ClassFileName, LtxFileLines, MaxLatexLen, "attribute") }
    \cup { Run(k, v, None, BibLines, MaxLen, "readonly")
           : k \in {"TexParser", "MkIndexParser", "BibTexParser"}, v \in BOOLEAN }

top == stack[Len(stack)]

\* The stack with its top parser replaced.
WithTop(f) == [stack EXCEPT ![Len(stack)] = f]

\* Whether fun, called on line, classifies the statement as an error.
ErrorHandler(fun, line) ==
    \/ fun \in {"error", "noInputError", "handleError", "pdfLatexError"}
    \/ fun = "handleOldStyleErrors" /\ \E i \in 1..Len(line) : line[i].t \in ErrorTok

\* Whether fun, called on line, classifies the statement as a warning.
WarningHandler(fun, line) ==
    \/ fun \in {"warning", "handleFileLineReference", "handleWarning",
                "handleFileLineWarning"}
    \/ fun = "handleOldStyleErrors" /\ ~\E i \in 1..Len(line) : line[i].t \in ErrorTok

\* The fragments of the physical lines a statement is made of.
Frags(line) == { <<line[i].k, line[i].h>> : i \in {n \in 1..Len(line) : line[n].k > 0} }

FragLess(a, b) == a[1] < b[1] \/ (a[1] = b[1] /\ a[2] < b[2])

Lowest(S) ==
    IF S = {} THEN <<0, 0>> ELSE CHOOSE a \in S : \A b \in S : a = b \/ FragLess(a, b)

Highest(S) ==
    IF S = {} THEN <<0, 0>> ELSE CHOOSE a \in S : \A b \in S : a = b \/ FragLess(b, a)

NoDisp ==
    [who |-> 0, kind |-> "", lo |-> <<0, 0>>, hi |-> <<0, 0>>, prevHi |-> <<0, 0>>,
     doneBefore |-> FALSE, matching |-> {}, fired |-> <<>>, fun |-> ""]

\* No decorator chain is read by itself.
NoNorm == [w |-> TexParser_setInput, out |-> <<>>, eof |-> FALSE]

Init ==
    /\ \E run \in Runs :
           /\ io = run.io
           /\ exc = setInput(run.kind, run.io)
           /\ stack = <<[init(run.kind, run.verbose, run.fileName)
                           EXCEPT !.pc = IF setInput(run.kind, run.io) = ""
                                         THEN "readline" ELSE "raised"]>>
           /\ stream = [pos |-> 0, eof |-> FALSE, vocab |-> run.vocab,
                        max |-> run.max, seen |-> <<>>, log |-> FALSE]
    /\ out = <<>>
    /\ journal = <<>>
    /\ result = <<>>
    /\ disp = NoDisp
    /\ covered = {}
    /\ twice = {}
    /\ handoff = [term |-> 0, first |-> 0]
    /\ mlog = <<>>
    /\ since = [errs |-> 0, warns |-> 0]
    /\ processresult = <<>>
    /\ norm = NoNorm

\* parseStream, "line = self.input_stream.readline()" and the loop's test.
ReadLine ==
    /\ exc = ""
    /\ top.pc = "readline"
    /\ \E r \in input_stream_readline(top.input_stream, stream) :
           /\ stack' = WithTop([top EXCEPT !.line = r.line,
                                           !.input_stream = r.w,
                                           !.pc = IF parseStream_while(r.line, top.done)
                                                  THEN "parseLine" ELSE "wrapup"])
           /\ stream' = r.in
    /\ out' = <<>>
    /\ disp' = [NoDisp EXCEPT !.hi = disp.hi]
    /\ mlog' = <<>>
    /\ UNCHANGED <<io, journal, exc, result, covered, twice, handoff, since, processresult,
                   norm>>

\* parseStream, "line = line.rstrip("\n"); self.parseLine(line)": the file
\* stack of a LaTexParser, then the pattern table; a handler that starts a
\* sub-parser stops at its call of bp.parseStream().
ParseLine ==
    /\ exc = ""
    /\ top.pc = "parseLine"
    /\ LET f == top
           line == rstripNL(f.line)
           t == IF f.kind = "LaTexParser" THEN trackFiles(f, filematch(line, 1))
                ELSE [f |-> f, out |-> <<>>, exc |-> "", log |-> <<>>]
           frags == Frags(f.line)
       IN  /\ mlog' = t.log
           /\ IF t.exc # ""
              THEN /\ exc' = t.exc
                   /\ stack' = WithTop([t.f EXCEPT !.pc = "raised"])
                   /\ out' = t.out
                   /\ UNCHANGED <<stream, journal, disp, covered, twice, handoff, since>>
              ELSE \E r \in TexParser_parseLine(t.f, line, stream) :
                     LET fun == IF r.fired = <<>> THEN ""
                                ELSE patterns(f.kind)[r.fired[Len(r.fired)]].fun
                         isErr == ErrorHandler(fun, line)
                         isWarn == WarningHandler(fun, line)
                         g == [r.f EXCEPT
                                 !.pc = afterParseLine(r.call, fun, r.f.done),
                                 !.line = <<>>,
                                 !.errDisp = IF isErr THEN @ + 1 ELSE @,
                                 !.warnDisp = IF isWarn THEN @ + 1 ELSE @,
                                 !.fatalDisp = @ \/ fun = "fatal" \/ (r.f.isFatal /\ ~f.isFatal),
                                 !.runDisp = IF fun = "newRun" THEN @ + 1 ELSE @,
                                 !.endedAt = IF r.f.done /\ ~f.done
                                             THEN LastLine(f.line) ELSE @]
                         e == IF r.call = "" THEN "" ELSE setInput(r.call, io)
                     IN  /\ exc' = e
                         /\ stack' = IF r.call = "" THEN WithTop(g)
                                     ELSE IF e # "" THEN WithTop([g EXCEPT !.pc = "raised"])
                                     ELSE Append(WithTop(g),
                                                 init(r.call, f.verbose,
                                                      IF r.call = "LaTexParser"
                                                      THEN f.fileName ELSE None))
                         /\ stream' = r.in
                         /\ out' = t.out \o r.out
                         /\ journal' = journal \o
                                [i \in 1..Len(r.jr) |->
                                    [ev |-> r.jr[i].ev, who |-> Len(stack),
                                     errs |-> r.jr[i].errs, warns |-> r.jr[i].warns,
                                     run |-> r.jr[i].run,
                                     sinceErrs |-> since.errs, sinceWarns |-> since.warns]]
                         /\ disp' = [who |-> Len(stack), kind |-> f.kind,
                                     lo |-> Lowest(frags), hi |-> Highest(frags),
                                     prevHi |-> disp.hi,
                                     doneBefore |-> f.done,
                                     matching |-> { i \in 1..Len(patterns(f.kind)) :
                                                      match(patterns(f.kind)[i].pat, line) },
                                     fired |-> r.fired, fun |-> fun]
                         /\ covered' = covered \cup frags
                         /\ twice' = twice \cup (covered \cap frags)
                         /\ handoff' = IF handoff.term # 0 /\ handoff.first = 0
                                       THEN [handoff EXCEPT !.first = Lowest(frags)[1]]
                                       ELSE [term |-> 0, first |-> 0]
                         /\ since' = IF fun = "newRun" THEN [errs |-> 0, warns |-> 0]
                                     ELSE [errs |-> since.errs + IF isErr THEN 1 ELSE 0,
                                           warns |-> since.warns + IF isWarn THEN 1 ELSE 0]
    /\ UNCHANGED <<io, result, processresult, norm>>

\* parseStream, "self.wrapup(); return self.isFatal, self.numErrs,
\* self.numWarns", and, in the parser that called it, the rest of startBibtex
\* or startLatex.
Wrapup ==
    /\ exc = ""
    /\ top.pc = "wrapup"
    /\ LET b == wrapup(top)
           n == Len(stack)
       IN  /\ out' = b.out
           /\ journal' = journal \o
                  IF b.out # <<>>
                  THEN <<[ev |-> "premature", who |-> n, errs |-> b.f.numErrs,
                          warns |-> b.f.numWarns, run |-> b.f.numRuns,
                          sinceErrs |-> since.errs, sinceWarns |-> since.warns]>>
                  ELSE <<>>
           /\ IF b.exc # ""
              THEN /\ exc' = b.exc
                   /\ stack' = WithTop([b.f EXCEPT !.pc = "raised"])
                   /\ UNCHANGED <<result, handoff>>
              ELSE IF n = 1
              THEN /\ stack' = <<[b.f EXCEPT !.pc = "returned"]>>
                   /\ result' = <<b.f.isFatal, b.f.numErrs, b.f.numWarns>>
                   /\ UNCHANGED <<exc, handoff>>
              ELSE /\ stack' = Append(SubSeq(stack, 1, n - 2),
                                      [foldCounts(stack[n - 1], b.f.numErrs, b.f.numWarns)
                                         EXCEPT !.pc = "readline",
                                                !.errDisp = @ + b.f.errDisp,
                                                !.warnDisp = @ + b.f.warnDisp,
                                                !.fatalDisp = @ \/ b.f.fatalDisp])
                   /\ handoff' = [term |-> b.f.endedAt, first |-> 0]
                   /\ UNCHANGED <<exc, result>>
    /\ disp' = [NoDisp EXCEPT !.hi = disp.hi]
    /\ mlog' = <<>>
    /\ UNCHANGED <<io, stream, covered, twice, since, processresult, norm>>

\* runParsedProcess after parser.parseStream() has returned: stdout.close(),
\* the exit and signal codes, the messages; and the status run_latex derives
\* from the result.
CloseStdout ==
    /\ exc = ""
    /\ Len(stack) = 1 /\ top.pc = "returned"
    /\ processresult = <<>>
    /\ \E returncode \in ReturnCodes :
           LET closed == stdout_close(returncode)
               p == runParsedProcess(result, top.numRuns, closed)
           IN  /\ processresult' = <<[result |-> p.result, closed |-> closed,
                                      stat |-> run_latex_stat(p.result)]>>
               /\ out' = p.out
    /\ disp' = [NoDisp EXCEPT !.hi = disp.hi]
    /\ mlog' = <<>>
    /\ UNCHANGED <<io, stream, stack, journal, exc, result, covered, twice, handoff, since,
                   norm>>

Next == ReadLine \/ ParseLine \/ Wrapup \/ CloseStdout

Spec == Init /\ [][Next]_vars


(* ------------------- the decorator chain by itself --------------------- *)

\* The lines of a LaTeX log the decorators act on, and one they pass on.
NormLines ==
    {"LtxWarnML", "Cont", "PkgWarn", "PkgCont", "PkgOther", "Inline", "Wide80", "LtxWarn",
     "Other"}

\* LaTexParser.setInput on a stream of at most MaxLatexLen lines, every line
\* read recorded; no parser runs.
InitNorm ==
    /\ io = "attribute"
    /\ stream = [pos |-> 0, eof |-> FALSE, vocab |-> NormLines, max |-> MaxLatexLen,
                 seen |-> <<>>, log |-> TRUE]
    /\ norm = [w |-> LaTexParser_setInput, out |-> <<>>, eof |-> FALSE]
    /\ processresult = <<>>
    /\ stack = <<>>
    /\ out = <<>>
    /\ journal = <<>>
    /\ exc = ""
    /\ result = <<>>
    /\ disp = NoDisp
    /\ covered = {}
    /\ twice = {}
    /\ handoff = [term |-> 0, first |-> 0]
    /\ mlog = <<>>
    /\ since = [errs |-> 0, warns |-> 0]

\* self.input_stream.readline() on the chain, as parseStream calls it, until
\* it returns end of input.
ReadStatement ==
    /\ ~norm.eof
    /\ \E r \in input_stream_readline(norm.w, stream) :
           /\ norm' = [w |-> r.w,
                       out |-> IF r.line = EOF THEN norm.out ELSE Append(norm.out, r.line),
                       eof |-> r.line = EOF]
           /\ stream' = r.in
    /\ UNCHANGED <<io, stack, out, journal, exc, result, disp, covered, twice, handoff,
                   mlog, since, processresult>>

NextNorm == ReadStatement

SpecNorm == InitNorm /\ [][NextNorm]_vars

(* ----------------------------- properties ------------------------------ *)

\* The run reports printed so far, in order.
Reports == SelectSeq(journal, LAMBDA e : e.ev = "report")

\* The first parser's parseStream has returned.
Returned == Len(stack) = 1 /\ top.pc = "returned"

\* C1: in every parser, once done has been set no further statement is
\* dispatched to the pattern table: every dispatch is made by a parser whose
\* done was not set before it.
C1_NoDispatchAfterDone == disp.who # 0 => ~disp.doneBefore

\* A parser whose done is set has read a further statement and left its loop
\* without dispatching it.
C1_Witness ==
    \E i \in 1..Len(stack) :
        stack[i].done /\ stack[i].pc = "wrapup" /\ stack[i].line # EOF

\* C2: no line is lost or duplicated: no fragment of a physical line is
\* dispatched twice, and when the first parser has returned every physical
\* line read from the process was dispatched, alone or within a merged
\* statement.
C2_NoLineLostOrDuplicated ==
    /\ twice = {}
    /\ Returned => \A k \in 1..stream.pos : \E c \in covered : c[1] = k

\* C3: after a delegate ended on its terminal marker, the first statement the
\* orchestrator dispatches is the physical line right after that marker.
C3_ResumeAfterTerminalMarker ==
    (handoff.term # 0 /\ handoff.first # 0) => handoff.first = handoff.term + 1

\* C4: statements are dispatched in arrival order, also across delegation:
\* each dispatched statement begins after the end of the one dispatched
\* before it, whichever parser dispatched that.
C4_ArrivalOrder == disp.who # 0 => FragLess(disp.prevHi, disp.lo)

\* The orchestrator dispatches a statement after a delegate, which dispatched
\* statements itself, has returned.
C4_Witness ==
    /\ disp.who = 1 /\ disp.kind = "ParseLatexMk"
    /\ handoff.first # 0
    /\ disp.prevHi # <<0, 0>>

\* The stream of C5: a BibTeX banner, a BibTeX warning, the up-to-date marker.
C5_Stream == <<"BibBanner", "BibWarn", "AllTargets">>

\* The orchestrator has returned from exactly the stream of C5.
C5_Case ==
    /\ Returned /\ top.kind = "ParseLatexMk"
    /\ stream.seen = C5_Stream /\ stream.eof

\* The orchestrator has returned from the stream of C5, its delegate having
\* dispatched the warning and the marker.
C5_Witness == C5_Case /\ top.warnDisp = 1 /\ covered = {<<1, 0>>, <<2, 0>>, <<3, 0>>}

\* C5 as stated: the orchestrator ends with no error, one warning, a run
\* count of at least one and done set.
C5_AsStated ==
    C5_Case => /\ top.numErrs = 0 /\ top.numWarns = 1
               /\ top.numRuns >= 1 /\ top.done = TRUE

\* C5: over a BibTeX banner, a BibTeX warning and the up-to-date marker the
\* orchestrator ends with no error, one warning, a run count of one and done
\* not set: the BibTeX parser, which met no separator line, read the marker
\* itself; the orchestrator returns (False, 0, 1).
C5_DelegationAccounting ==
    C5_Case => /\ top.numErrs = 0 /\ top.numWarns = 1
               /\ top.numRuns = 1 /\ top.done = FALSE
               /\ result = <<FALSE, 0, 1>>
               /\ top.warnDisp = 1 /\ top.errDisp = 0

\* The stream of C6: a run-boundary marker, a BibTeX run with one error, ended
\* by its separator line and the line read after it, and two more run-boundary
\* markers.
C6_Stream ==
    <<"RunNumber", "BibBanner", "BibErr", "Sep", "Other", "RunNumber", "RunNumber">>

\* C6: an error counted between two run-boundary markers is reported against
\* the run the first marker began and no other: every report shows the errors
\* and warnings dispatched since the boundary before it, a run-boundary marker
\* leaves both counts at zero, and over the stream of C6 the report of the
\* first run shows one error and the report of the second run shows none.
C6_RunBoundaryReset ==
    /\ \A j \in 1..Len(Reports) :
           /\ Reports[j].errs = Reports[j].sinceErrs
           /\ Reports[j].warns = Reports[j].sinceWarns
    /\ disp.fun = "newRun" =>
           stack[disp.who].numErrs = 0 /\ stack[disp.who].numWarns = 0
    /\ (Returned /\ stream.seen = C6_Stream) =>
           /\ Len(Reports) = 2
           /\ Reports[1].errs = 1 /\ Reports[1].run = 1
           /\ Reports[2].errs = 0 /\ Reports[2].run = 2
           /\ top.numErrs = 0

\* The orchestrator has returned from the stream of C6.
C6_Witness == Returned /\ stream.seen = C6_Stream /\ Len(Reports) = 2

\* The counts of the parsers that stay on the stack do not decrease in a step.
C7_NonDecreasing ==
    \A i \in 1..Len(stack) :
        i <= Len(stack') =>
            /\ stack'[i].numErrs >= stack[i].numErrs
            /\ stack'[i].numWarns >= stack[i].numWarns

\* The counts of the parsers that stay on the stack do not decrease in a
\* step, but for the orchestrator's at a run-boundary marker, which become 0.
C7_NonDecreasingButAtBoundary ==
    \A i \in 1..Len(stack) :
        i <= Len(stack') =>
            \/ /\ stack'[i].numErrs >= stack[i].numErrs
               /\ stack'[i].numWarns >= stack[i].numWarns
            \/ /\ disp'.fun = "newRun" /\ disp'.who = i
               /\ stack'[i].numErrs = 0 /\ stack'[i].numWarns = 0

\* C7 as stated: the counts of a parser never decrease, and when it leaves its
\* loop they are the numbers of statements that were dispatched, by it or by
\* its delegates, to an error and to a warning handler.
C7_AsStated ==
    /\ [][C7_NonDecreasing]_vars
    /\ [](top.pc = "wrapup" =>
            top.numErrs = top.errDisp /\ top.numWarns = top.warnDisp)

\* C7: the counts of a base, LaTeX, BibTeX or makeindex parser never decrease
\* and are at any time the numbers of statements it dispatched to an error
\* and to a warning handler; the orchestrator's counts decrease only at a
\* run-boundary marker, which sets them to zero, and with those of its running
\* delegate they are the numbers of statements dispatched to an error and to a
\* warning handler since the last run-boundary marker.
C7_CounterMonotonicity ==
    /\ [][C7_NonDecreasingButAtBoundary]_vars
    /\ [](\A i \in 1..Len(stack) :
            stack[i].kind # "ParseLatexMk" =>
                /\ stack[i].numErrs = stack[i].errDisp
                /\ stack[i].numWarns = stack[i].warnDisp)
    /\ [](/\ stack[1].numErrs + (IF Len(stack) = 2 THEN stack[2].numErrs ELSE 0)
               = since.errs
          /\ stack[1].numWarns + (IF Len(stack) = 2 THEN stack[2].numWarns ELSE 0)
               = since.warns)

\* The orchestrator has returned with counts below the numbers of statements
\* dispatched to error and warning handlers in its run, after a boundary.
C7_Witness ==
    /\ Returned /\ top.kind = "ParseLatexMk"
    /\ top.numErrs < top.errDisp /\ top.numWarns < top.warnDisp
    /\ top.numRuns >= 2

\* The least number of a non-empty set of numbers.
Min(S) == CHOOSE n \in S : \A m \in S : n <= m

\* C8: of the entries of the pattern table that match a statement, the
\* handler of the one declared first is called, and no other.
C8_FirstMatchPriority ==
    (disp.who # 0 /\ disp.matching # {}) => disp.fired = <<Min(disp.matching)>>

\* A statement that several entries match has been dispatched.
C8_Witness ==
    /\ disp.who # 0 /\ Cardinality(disp.matching) >= 2
    /\ disp.fired # <<>>

\* The markers of the last statement that were close markers met with an
\* empty file stack.
ClosesOnEmpty == { j \in 1..Len(mlog) : mlog[j].openclose = ")" /\ mlog[j].before = <<>> }

\* C9: in the LaTeX parser a close marker met with an empty file stack raises
\* nothing, leaves the stack empty and the current file as it was, and prints
\* no notification.
C9_CloseOnEmptyStack ==
    \A j \in ClosesOnEmpty :
        /\ mlog[j].exc = "" /\ exc # "IndexError"
        /\ mlog[j].after = <<>>
        /\ mlog[j].activeAfter = mlog[j].activeBefore
        /\ mlog[j].notified = 0

\* A close marker was met with an empty file stack, and the parser went on to
\* dispatch the statement.
C9_Witness == ClosesOnEmpty # {} /\ disp.who # 0

\* A LaTeX parser, run by itself, has ended on a stream that is a banner and
\* nothing more.
C10_Case ==
    /\ Len(stack) = 1 /\ top.kind = "LaTexParser"
    /\ top.pc \in {"returned", "raised"}
    /\ stream.seen = <<"LtxBanner">> /\ stream.eof

\* C10_Case with a parser that was given a file name.
C10_Witness == C10_Case /\ top.fileName # None /\ top.badRuns = 1

\* C10: a stream that ends right after a LaTeX banner is reported by badRun,
\* called once, as ended prematurely, which no run that met the transcript
\* line is; the parser returns and its error count is 0.
C10_AbnormalTermination ==
    /\ C10_Case =>
           /\ top.badRuns = 1
           /\ \E j \in 1..Len(journal) : journal[j].ev = "premature"
           /\ exc = "" /\ result = <<FALSE, 0, 0>>
           /\ top.numErrs = 0
    /\ (Len(stack) = 1 /\ top.kind = "LaTexParser" /\ top.done) =>
           \A j \in 1..Len(journal) : journal[j].ev # "premature"

(* ---------------------- the decorator chain, read ---------------------- *)

\* Physical line i of the stream read so far (SpecNorm records every line).
Phys(i) == PhysLine(stream.seen[i], i)

\* The physical lines read so far, one statement each.
PhysLines == [i \in 1..Len(stream.seen) |-> Phys(i)]

\* The chain has returned end of input: the stream was read to its end.
ChainDone == norm.eof /\ stream.eof

\* No physical line is 80 characters long.
No80 == \A i \in 1..Len(stream.seen) : StrLen(Phys(i)) # Width80

\* No physical line holds an inline TeX warning or error after other text, no
\* "LaTeX Warning" line is followed by a line that begins with two spaces and
\* no "Package NAME Warning:" line by a line that begins with "(NAME)".
NothingToRewrap ==
    /\ \A i \in 1..Len(stream.seen) : LinebreakWarning_pattern(Phys(i)) = 0
    /\ \A i \in 1..(Len(stream.seen) - 1) :
           /\ ~(startswith(Phys(i), <<"LaTeX Warning:">>) /\ startswithTwoSpaces(Phys(i + 1)))
           /\ ~(/\ match(NoMultilinePackageWarning_firstlinere, Phys(i))
                /\ startswith(Phys(i + 1), <<"(", Phys(i)[2].t, ")">>))

\* The claim as the specification states it: a stream without 80-character
\* lines comes out of the chain unchanged, one statement per physical line.
C11_AsStated == (ChainDone /\ No80) => norm.out = PhysLines

\* C11: a stream that has no 80-character line, no inline TeX warning or
\* error after other text, no LaTeX warning followed by an indented line and
\* no package warning followed by its "(NAME)" continuation comes out of the
\* decorator chain unchanged, one statement per physical line, in order.
C11_RewrapIdempotence == (ChainDone /\ No80 /\ NothingToRewrap) => norm.out = PhysLines

\* A stream of four lines with warnings and indented lines in it, none to be
\* rewrapped, has been read through the chain to its end.
C11_Witness ==
    /\ ChainDone /\ No80 /\ NothingToRewrap
    /\ Len(stream.seen) = MaxLatexLen
    /\ \E i \in 1..Len(stream.seen) : startswith(Phys(i), <<"LaTeX Warning:">>)
    /\ \E i \in 1..Len(stream.seen) : startswithTwoSpaces(Phys(i))
    /\ Len(norm.out) = MaxLatexLen

\* Physical line i without its terminator, and without its leading white
\* space as well.
Body(i) == SelectSeq(Phys(i), LAMBDA p : p.t # NL)

RECURSIVE DropWs(_)
DropWs(s) == IF s # <<>> /\ Head(s).t \in WsTok THEN DropWs(Tail(s)) ELSE s

Trim(i) == DropWs(Body(i))

\* Lines 1 to j joined by single spaces, the lines after the first
\* left-trimmed.
RECURSIVE Joined(_)
Joined(j) == IF j = 1 THEN Body(1) ELSE Joined(j - 1) \o Space \o Trim(j)

\* The stream read to its end was a "LaTeX Warning:" line, one or more lines
\* that start with two spaces or more, and a line that does not.
WarningContinuedThenLine ==
    /\ ChainDone /\ Len(stream.seen) >= 3
    /\ startswith(Phys(1), <<"LaTeX Warning:">>)
    /\ \A i \in 2..(Len(stream.seen) - 1) : startswithTwoSpaces(Phys(i))
    /\ ~startswithTwoSpaces(Phys(Len(stream.seen)))

Ended == Returned \/ exc # ""

\* What is left to read: the lines the process may still print and its end
\* of input, and the statements the decorators of the running parser hold.
Unread ==
    (IF stream.eof THEN 0 ELSE 8 * (stream.max - stream.pos) + 1)
    + (IF top.input_stream.lbw # <<>> THEN 3 ELSE 0)
    + (IF top.input_stream.nmw # <<>> THEN 2 ELSE 0)
    + (IF top.input_stream.nmpw # <<>> THEN 1 ELSE 0)

\* How far the running parseStream, and the one that waits for it in
\* startBibtex or startLatex, are from their return.
ToReturn ==
    IF Ended THEN 0
    ELSE IF Len(stack) = 1
    THEN CASE top.pc = "wrapup" -> 1
           [] top.pc = "readline" -> 2
           [] top.pc = "parseLine" -> 7
    ELSE CASE top.pc = "wrapup" -> 3
           [] top.pc = "readline" -> 4
           [] top.pc = "parseLine" -> 5

\* A variant of parseStream: every step of a parser lowers it, and so does
\* the close of the process output after the parser's return.
Variant == 10 * Unread + ToReturn + (IF processresult = <<>> THEN 1 ELSE 0)

\* The parser that is running has a next step: a statement or end of input
\* to read, a statement to dispatch, or its wrap-up.
CanStep ==
    /\ exc = ""
    /\ \/ top.pc = "readline" /\ input_stream_readline(top.input_stream, stream) # {}
       \/ /\ top.pc = "parseLine"
          /\ LET line == rstripNL(top.line)
                 t == IF top.kind = "LaTexParser" THEN trackFiles(top, filematch(line, 1))
                      ELSE [f |-> top, out |-> <<>>, exc |-> "", log |-> <<>>]
             IN  t.exc # "" \/ TexParser_parseLine(t.f, line, stream) # {}
       \/ top.pc = "wrapup"

\* C13: on every stream that ends, parseStream of every parser, the
\* orchestrator's with the sub-parsers it starts and the decorators' merge
\* loops within, comes to its end: as long as it has not ended the parser has
\* a next step, and every step lowers a variant that is a natural number.
C13_NoDeadlock ==
    /\ [](Variant \in Nat /\ (~Ended => CanStep))
    /\ [][Variant' < Variant]_vars

\* An orchestrator has returned at the end of the stream after it started a
\* LaTeX parser and a warning was merged with its continuation lines.
C13_Witness ==
    /\ Returned /\ top.kind = "ParseLatexMk" /\ stream.eof
    /\ top.warnDisp >= 1 /\ stream.pos = stream.max

\* C14: parseStream never raises: whatever the stream, cut short before the
\* terminal marker or not, and whether or not the parser was given a file
\* name, it returns (isFatal, numErrs, numWarns).
C14_NeverRaises ==
    /\ exc = ""
    /\ \A i \in 1..Len(stack) : stack[i].pc # "raised"
    /\ Returned => result = <<top.isFatal, top.numErrs, top.numWarns>>

\* A LaTeX parser without a file name, its decorators constructed, met the
\* end of a stream that has no terminal marker, and badRun raised.
C14_Witness ==
    /\ io = "attribute" /\ exc = "TypeError"
    /\ top.kind = "LaTexParser" /\ top.fileName = None
    /\ ~top.done /\ stream.eof /\ top.badRuns = 1

\* A step in which the running parser dispatched a fatal message: the
\* pattern '\s+==>' called fatal, or pdfLatexError found 'Fatal error
\* occurred' on the line after 'Error: pdflatex'.
FatalDispatched ==
    /\ top.pc = "parseLine" /\ disp'.who = Len(stack)
    /\ \/ disp'.fun = "fatal"
       \/ disp'.fun = "pdfLatexError" /\ ~top.isFatal /\ top'.isFatal

\* A step in which a parser that has met a fatal message, and no terminal
\* marker, reads the next statement.
ReadAfterFatal ==
    /\ top.pc = "readline" /\ top.isFatal /\ ~top.done
    /\ top'.line # EOF

\* A step in which a parser that has met a fatal message dispatches a
\* statement.
DispatchAfterFatal ==
    /\ top.pc = "parseLine" /\ top.isFatal /\ disp'.who = Len(stack)

C16_FatalUnderOrchestration ==
    (Returned /\ top.kind = "ParseLatexMk" /\ top.fatalDisp) => result[1] = TRUE

\* The orchestrator has returned from a run in which the LaTeX parser it
\* started dispatched a fatal message and met its terminal marker.
C16_Witness ==
    /\ Returned /\ top.kind = "ParseLatexMk" /\ top.fatalDisp
    /\ result = <<FALSE, 0, 0>>
    /\ handoff.term # 0

\* C17: when parseStream has returned, numRuns is at least 1: it is 1 when
\* no statement was dispatched to newRun, and the number of statements
\* dispatched to newRun otherwise.
C17_RunCountFloor ==
    Returned =>
        /\ top.numRuns >= 1
        /\ top.numRuns = IF top.runDisp = 0 THEN 1 ELSE top.runDisp

\* The orchestrator has returned from a stream of several lines on which it
\* dispatched no run marker.
C17_Witness ==
    /\ Returned /\ top.kind = "ParseLatexMk"
    /\ top.runDisp = 0 /\ top.numRuns = 1 /\ stream.pos >= 2

\* The wrap-up of a sub-parser with its return to the parser that started it.
DelegateReturns == Len(stack) = 2 /\ top.pc = "wrapup" /\ Len(stack') = 1

\* C18: badRun is called once in a parseStream that comes to its wrap-up
\* with done unset, and not at all in one that comes to it with done set,
\* whether or not the stream ended right after the terminal marker; it is
\* not called before the wrap-up.  (The premature end that a sub-parser's
\* badRun prints is printed at its return exactly when its done is unset.)
C18_BadRunOnceIffNotDone ==
    /\ [](\A i \in 1..Len(stack) :
             stack[i].pc \notin {"returned", "raised"} => stack[i].badRuns = 0)
    /\ [](Returned => top.badRuns = IF top.done THEN 0 ELSE 1)
    /\ []((Len(stack) = 1 /\ top.pc = "raised") => top.badRuns = IF exc = "TypeError" THEN 1 ELSE 0)
    /\ [][(DelegateReturns /\ top.kind = "LaTexParser" /\ top.fileName # None) =>
            ((journal' # journal) <=> ~top.done)]_vars

\* A parser has returned from a stream that ended right after the line that
\* set done, badRun not called.
C18_Witness ==
    /\ Returned /\ top.done /\ top.badRuns = 0
    /\ stream.eof /\ stream.pos = top.endedAt /\ stream.pos >= 2

(* ------------------ the decorator chain, its buffers ------------------- *)

RECURSIVE Concat(_)
Concat(ss) == IF ss = <<>> THEN <<>> ELSE Head(ss) \o Concat(Tail(ss))

\* The text the chain has handed out followed by what its decorators hold,
\* the topmost first, without the spaces the mergers put in.
HandedOutAndHeld ==
    SelectSeq(Concat(norm.out) \o norm.w.nmpw \o norm.w.nmw \o norm.w.lbw,
              LAMBDA p : p.k > 0)

\* a is b with some of its elements left out.
RECURSIVE IsSubSeq(_, _)
IsSubSeq(a, b) ==
    IF a = <<>> THEN TRUE
    ELSE IF b = <<>> THEN FALSE
    ELSE IF Head(a) = Head(b) THEN IsSubSeq(Tail(a), Tail(b))
    ELSE IsSubSeq(a, Tail(b))

\* The text of physical line k in s.
OfLine(s, k) == Str(SelectSeq(s, LAMBDA p : p.k = k))

\* C19: each of LinebreakWarning, NoMultilineWarning and
\* NoMultilinePackageWarning assigns its buffer only while it is empty, and
\* hands a statement it holds out before anything it reads after it: the
\* statements handed out and, after them, the statements held by the
\* topmost, the middle and the lowest of the three are the physical lines
\* read so far, each of them, in the order of the stream.
C19_OnePendingStatement ==
    LET all == HandedOutAndHeld
    IN  /\ ~norm.w.over
        /\ \A i \in 1..(Len(all) - 1) : all[i].k <= all[i + 1].k
        /\ \A k \in 1..stream.pos :
               LET text == OfLine(all, k)
               IN  text # <<>> /\ IsSubSeq(text, Str(Phys(k)))

\* The three decorators hold a statement each, after the first statement
\* was handed out: a package warning was handed out, the warning after it is
\* held by the topmost decorator and the two halves of the split line after
\* that by the other two.
C19_Witness ==
    /\ norm.w.lbw # <<>> /\ norm.w.nmw # <<>> /\ norm.w.nmpw # <<>>
    /\ Len(norm.out) = 1 /\ ~norm.w.over

\* The lines of the process are exhausted for a call that returned r: it
\* read none.
ReadNothing(r) == r.in.pos = stream.pos

\* C20: a decorator returns the empty read exactly when it holds no
\* statement and the one below it is exhausted (for the lowest, when the
\* process output is; for the others, when the one below holds nothing
\* either), so the chain returns it only once every line read has been handed
\* out; what NoLinebreak80 or a merger has accumulated when the input ends is
\* handed out as a statement, and at the end every physical line has been.
C20_EofForwardedExactly ==
    /\ [](\A r \in NoLinebreak80_readline(stream) :
             r.line = EOF <=> ReadNothing(r))
    /\ [](\A r \in LinebreakWarning_readline(norm.w, stream) :
             r.line = EOF <=> (norm.w.lbw = <<>> /\ ReadNothing(r)))
    /\ [](\A r \in NoMultilineWarning_readline(norm.w, stream) :
             r.line = EOF <=> (norm.w.nmw = <<>> /\ norm.w.lbw = <<>> /\ ReadNothing(r)))
    /\ [](\A r \in NoMultilinePackageWarning_readline(norm.w, stream) :
             r.line = EOF <=>
                 (/\ norm.w.nmpw = <<>> /\ norm.w.nmw = <<>> /\ norm.w.lbw = <<>>
                  /\ ReadNothing(r)))
    /\ [][norm'.eof <=>
             (/\ norm.w.nmpw = <<>> /\ norm.w.nmw = <<>> /\ norm.w.lbw = <<>>
              /\ stream'.pos = stream.pos)]_vars
    /\ [](ChainDone =>
             /\ norm.w.nmpw = <<>> /\ norm.w.nmw = <<>> /\ norm.w.lbw = <<>>
             /\ \A k \in 1..stream.pos : \E p \in 1..Len(Concat(norm.out)) : Concat(norm.out)[p].k = k)

\* The stream ended in a run of two 80-character lines after a warning that
\* was being merged; both were handed out before the empty read.
C20_Witness ==
    /\ ChainDone
    /\ stream.seen = <<"LtxWarnML", "Cont", "Wide80", "Wide80">>
    /\ Len(norm.out) = 2
    /\ OfLine(norm.out[2], 3) # <<>> /\ OfLine(norm.out[2], 4) # <<>>

(* --------------------- the decorators, one by one ---------------------- *)

\* Physical line i of a stream whose lines read are seen.
LineOf(seen, i) == PhysLine(seen[i], i)

\* Lines a to b with their terminators stripped, one after the other.
RECURSIVE Unbroken(_, _, _)
Unbroken(seen, a, b) ==
    IF a > b THEN <<>>
    ELSE SelectSeq(LineOf(seen, a), LAMBDA p : p.t # NL) \o Unbroken(seen, a + 1, b)

\* C21: a read of NoLinebreak80 consumes a run of physical lines of exactly
\* 80 characters, terminator included, as long as there is one, and the
\* first line after it that is not, if the input does not end first; it
\* returns the lines of the run without their terminators followed by that
\* line with its terminator, as one statement, and the empty read when it
\* consumed nothing.
C21_FixedWidthRewrap ==
    \A r \in NoLinebreak80_readline(stream) :
        LET a == stream.pos + 1
            b == r.in.pos
            seen == r.in.seen
        IN  /\ \A i \in a..(b - 1) : StrLen(LineOf(seen, i)) = Width80
            /\ IF b >= a /\ StrLen(LineOf(seen, b)) # Width80
               THEN /\ StrLen(LineOf(seen, b)) < Width80
                    /\ r.line = Unbroken(seen, a, b - 1) \o LineOf(seen, b)
               ELSE /\ r.in.eof
                    /\ r.line = Unbroken(seen, a, b)

\* A run of two 80-character lines and the shorter line after it have come
\* out of the chain as one statement, and the stream has ended.
C21_Witness ==
    /\ ChainDone
    /\ stream.seen = <<"Other", "Wide80", "Wide80", "Other">>
    /\ Len(norm.out) = 2
    /\ norm.out[2] = Unbroken(stream.seen, 2, 3) \o Phys(4)

\* A statement in which text that does not end in a letter is followed, on
\* the same line, by a TeX warning or error introducer.
HasInline(s) ==
    \E i \in 2..Len(s) :
        /\ s[i].t \in IntroTok /\ s[i - 1].t \notin LetterEndTok
        /\ \A m \in 1..i : s[m].t # NL

\* The statement NoLinebreak80 returned in the call of LinebreakWarning that
\* gave r.
Below(r) == CHOOSE s \in NoLinebreak80_readline(stream) : s.in = r.in

\* C22: LinebreakWarning splits a statement in which text is followed by a
\* TeX warning or error introducer, and no other, in two: the read returns
\* the text before the introducer and keeps the rest, which begins with the
\* introducer; the two together are the statement without its terminator;
\* the next read returns what was kept, consumes no line and keeps nothing.
C22_InlineSplit ==
    /\ [](IF norm.w.lbw # <<>>
          THEN LinebreakWarning_readline(norm.w, stream)
                   = {[line |-> norm.w.lbw, w |-> [norm.w EXCEPT !.lbw = <<>>], in |-> stream]}
          ELSE \A r \in LinebreakWarning_readline(norm.w, stream) :
                   IF HasInline(Below(r).line)
                   THEN /\ r.line # <<>> /\ r.w.lbw # <<>>
                        /\ r.w.lbw[1].t \in IntroTok
                        /\ \A m \in 1..Len(r.line) : r.line[m].t \notin IntroTok
                        /\ Str(r.line \o r.w.lbw) = Str(rstripNL(Below(r).line))
                   ELSE r.line = Below(r).line /\ r.w.lbw = <<>>)
    /\ [][(norm.w.lbw # <<>> /\ norm.w.nmw = <<>> /\ norm.w.nmpw = <<>>) =>
             /\ norm'.out = Append(norm.out, norm.w.lbw)
             /\ norm'.w.lbw = <<>>
             /\ stream' = stream]_vars

\* Both halves of a split line have been handed out, one after the other,
\* and no line after it has been read yet.
C22_Witness ==
    /\ stream.seen = <<"Other", "Inline">> /\ ~stream.eof
    /\ Len(norm.out) = 3 /\ norm.w.lbw = <<>>
    /\ Str(norm.out[2] \o norm.out[3]) = Str(rstripNL(Phys(2)))
    /\ norm.out[3][1].t \in IntroTok

\* The statements NoMultilineWarning takes in one read that began with g0:
\* g0, the statements after it as long as they begin with two spaces, and
\* the first that does not (the empty read at the end of the input too).
RECURSIVE Taken(_)
Taken(c) ==
    UNION { IF startswithTwoSpaces(g.line) THEN Taken(Append(c, g)) ELSE {Append(c, g)}
          : g \in NoMultilineWarning_getline(c[Len(c)].w, c[Len(c)].in) }

\* Statements 1 to j of c in one: each without its terminator before the
\* next, a space between them, the later ones without leading white space.
RECURSIVE MergedTo(_, _)
MergedTo(c, j) ==
    IF j = 1 THEN c[1].line
    ELSE rstripNL(MergedTo(c, j - 1)) \o Space \o lstrip(c[j].line)

\* What a read hands out, holds back, and leaves of the input.
Core(r) == [line |-> r.line, lbw |-> r.w.lbw, nmw |-> r.w.nmw, in |-> r.in]

IsLatexWarning(s) == startswith(s, <<"LaTeX Warning:">>)

\* C23: a read of NoMultilineWarning that begins with a "LaTeX Warning"
\* statement returns it merged with the statements after it that begin with
\* two spaces and keeps the first statement that does not; any other
\* statement is returned as it is.  A statement that was kept is what the
\* next read begins with, without reading the input: it is returned
\* unchanged when it is no warning, and merged with its own continuations
\* when it is one.
C23_PlainWarningMerge ==
    /\ { Core(r) : r \in NoMultilineWarning_readline(norm.w, stream) }
         = UNION { IF g0.line = EOF \/ ~IsLatexWarning(g0.line)
                   THEN {Core(g0)}
                   ELSE { [line |-> MergedTo(c, Len(c) - 1),
                           lbw |-> c[Len(c)].w.lbw,
                           nmw |-> c[Len(c)].line,
                           in |-> c[Len(c)].in] : c \in Taken(<<g0>>) }
                 : g0 \in NoMultilineWarning_getline(norm.w, stream) }
    /\ norm.w.nmw # <<>> =>
         /\ NoMultilineWarning_getline(norm.w, stream)
              = {[line |-> norm.w.nmw, w |-> [norm.w EXCEPT !.nmw = <<>>], in |-> stream]}
         /\ ~startswithTwoSpaces(norm.w.nmw)
         /\ \A r \in NoMultilineWarning_readline(norm.w, stream) :
                IF IsLatexWarning(norm.w.nmw)
                THEN /\ Len(r.line) >= Len(norm.w.nmw) - 1
                     /\ SubSeq(r.line, 1, Len(norm.w.nmw) - 1) = rstripNL(norm.w.nmw)
                ELSE r.line = norm.w.nmw /\ r.in = stream /\ r.w.nmw = <<>>

\* A warning with a continuation was ended by a second warning, which was
\* kept and then merged with the continuation that followed it.
C23_Witness ==
    /\ ChainDone
    /\ stream.seen = <<"LtxWarnML", "Cont", "LtxWarn", "Cont">>
    /\ Len(norm.out) = 2
    /\ norm.out[1] = Body(1) \o Space \o lstrip(Phys(2))
    /\ norm.out[2] = Body(3) \o Space \o lstrip(Phys(4))

\* s is the first line of a warning of a package; the name of the package.
IsPackageWarning(s) ==
    Len(s) >= 3 /\ s[1].t = "Package " /\ s[2].t \in WordTok /\ s[3].t = " Warning:"

PackageOf(s) == s[2].t

\* s begins with the name in parentheses; s without that beginning.
Continues(s, name) == Len(s) >= 3 /\ s[1].t = "(" /\ s[2].t = name /\ s[3].t = ")"

AfterName(s) == SubSeq(s, 4, Len(s))

\* The statements NoMultilinePackageWarning takes in one read that began
\* with the warning c[1]: the statements after it as long as they begin with
\* the name of its package in parentheses, and the first that does not.
RECURSIVE TakenPackage(_)
TakenPackage(c) ==
    UNION { IF Continues(g.line, PackageOf(c[1].line))
            THEN TakenPackage(Append(c, g)) ELSE {Append(c, g)}
          : g \in NoMultilinePackageWarning_getline(c[Len(c)].w, c[Len(c)].in) }

RECURSIVE MergedPackageTo(_, _)
MergedPackageTo(c, j) ==
    IF j = 1 THEN c[1].line
    ELSE rstripNL(MergedPackageTo(c, j - 1)) \o Space \o lstrip(AfterName(c[j].line))

CoreTop(r) ==
    [line |-> r.line, lbw |-> r.w.lbw, nmw |-> r.w.nmw, nmpw |-> r.w.nmpw, in |-> r.in]

\* C24: a read of NoMultilinePackageWarning that begins with a statement
\* "Package NAME Warning:" returns it merged with the statements after it
\* that begin with "(NAME)" for the same NAME, that beginning and the white
\* space after it removed, and keeps the first statement that does not begin
\* so, one that begins with the name of another package included; any other
\* statement is returned as it is.  The chain hands out a kept statement
\* next, reading nothing, when it is no package warning itself.
C24_PackageWarningMerge ==
    /\ [](/\ { CoreTop(r) : r \in NoMultilinePackageWarning_readline(norm.w, stream) }
             = UNION { IF g0.line = EOF \/ ~IsPackageWarning(g0.line)
                       THEN {CoreTop(g0)}
                       ELSE { [line |-> MergedPackageTo(c, Len(c) - 1),
                               lbw |-> c[Len(c)].w.lbw,
                               nmw |-> c[Len(c)].w.nmw,
                               nmpw |-> c[Len(c)].line,
                               in |-> c[Len(c)].in] : c \in TakenPackage(<<g0>>) }
                     : g0 \in NoMultilinePackageWarning_getline(norm.w, stream) }
          /\ \A r \in NoMultilinePackageWarning_readline(norm.w, stream) :
                 IsPackageWarning(r.line) => ~Continues(r.w.nmpw, PackageOf(r.line)))
    /\ [][(norm.w.nmpw # <<>> /\ ~IsPackageWarning(norm.w.nmpw)) =>
             /\ norm'.out = Append(norm.out, norm.w.nmpw)
             /\ norm'.w.nmpw = <<>>
             /\ stream' = stream]_vars

\* A package warning was merged with a line of its own package, ended by a
\* line that began with the name of another package, and that line came
\* next, as it was.
C24_Witness ==
    /\ ChainDone
    /\ stream.seen = <<"PkgWarn", "PkgCont", "PkgOther", "PkgCont">>
    /\ Len(norm.out) = 3
    /\ norm.out[1] = Body(1) \o Space \o lstrip(AfterName(Phys(2)))
    /\ norm.out[2] = Phys(3)
    /\ norm.out[3] = Phys(4)

(* ----------------------- LaTexParser: the file stack ------------------- *)

\* A LaTexParser is about to process a statement.
TracksFiles == exc = "" /\ stack # <<>> /\ top.pc = "parseLine" /\ top.kind = "LaTexParser"

\* The positions of the parentheses of a statement, left to right.
RECURSIVE MarkersAt(_, _)
MarkersAt(line, n) ==
    IF n > Len(line) THEN <<>>
    ELSE IF line[n].t \in {"(", ")"} THEN <<n>> \o MarkersAt(line, n + 1)
    ELSE MarkersAt(line, n + 1)

\* The file name that follows the parenthesis at position n; empty when
\* none follows.
TokenAfter(line, n) ==
    IF n < Len(line) /\ line[n + 1].t \in FileTok THEN line[n + 1].t ELSE ""

Count(s, P(_)) == Len(SelectSeq(s, P))

\* C25: LaTexParser.parseLine takes the parentheses of a statement left to
\* right; an open one appends the name after it to the file stack, a close
\* one removes the last entry of a stack that is not empty and leaves an
\* empty stack alone; the depth after the statement is the depth before it
\* plus the open markers minus the close markers that removed an entry; a
\* stack that holds the initial file name alone is emptied by a close
\* marker.
C25_FileStackDiscipline ==
    [][TracksFiles =>
         LET line == rstripNL(top.line)
             at == MarkersAt(line, 1)
             after == stack'[Len(stack)].fileStack
         IN  /\ Len(mlog') = Len(at)
             /\ \A i \in 1..Len(at) :
                  LET e == mlog'[i]
                  IN  /\ e.openclose = line[at[i]].t
                      /\ e.exc = ""
                      /\ e.before = IF i = 1 THEN top.fileStack ELSE mlog'[i - 1].after
                      /\ IF e.openclose = "("
                         THEN e.after = Append(e.before, TokenAfter(line, at[i]))
                         ELSE IF e.before # <<>>
                         THEN e.after = SubSeq(e.before, 1, Len(e.before) - 1)
                         ELSE e.after = <<>>
                      /\ (e.openclose = ")" /\ e.before = <<top.fileName>>) => e.after = <<>>
             /\ after = IF at = <<>> THEN top.fileStack ELSE mlog'[Len(at)].after
             /\ Len(after) = Len(top.fileStack)
                               + Count(mlog', LAMBDA e : e.openclose = "(")
                               - Count(mlog', LAMBDA e : e.openclose = ")" /\ e.before # <<>>)]_vars

\* The initial file name was removed by a close marker, and a later close
\* marker found the stack empty and left it so.
C25_Witness ==
    /\ stack # <<>> /\ top.kind = "LaTexParser" /\ top.fileName # None
    /\ top.fileStack = <<>>
    /\ mlog # <<>> /\ mlog[1].openclose = ")"
    /\ mlog[1].before = <<>> /\ mlog[1].after = <<>>

\* C26: a marker makes LaTexParser.parseLine print a notification exactly
\* when it changes the active file, and one notification then; a marker that
\* leaves the top-most entry of the stack with a tracked extension the same
\* prints none.
C26_Notifications ==
    [][TracksFiles =>
         \A i \in 1..Len(mlog') :
             LET e == mlog'[i]
             IN  /\ e.notified = IF e.activeBefore # e.activeAfter THEN 1 ELSE 0
                 /\ getLastFile(e.before, top.exts) = getLastFile(e.after, top.exts)
                      => e.notified = 0]_vars

\* The first marker of a parser that was given a file name opened a file
\* whose extension is not tracked: the top-most tracked entry is the initial
\* file name before and after it, and a notification was printed.
C26_Witness ==
    /\ stack # <<>> /\ top.kind = "LaTexParser" /\ top.fileName # None
    /\ mlog # <<>> /\ mlog[1].openclose = "("
    /\ mlog[1].before = <<top.fileName>>
    /\ getLastFile(mlog[1].after, top.exts) = top.fileName
    /\ mlog[1].notified = 1
    /\ out # <<>> /\ out[Len(out)] = Ev("Processing", <<top.fileName>>)

\* The tracker of a parser that was given a file name is as __init__ left
\* it: no marker has been processed.
NoMarkerYet(f) == f.fileName # None /\ f.fileStack = <<f.fileName>> /\ f.currentFile = ""

\* C27: a warning with a line number that a LaTexParser constructed with a
\* file name dispatches to handleWarning before any marker has occurred is
\* printed with that file name and the line number as its location.
C27_InitialActiveFile ==
    [][(/\ TracksFiles /\ NoMarkerYet(top)
        /\ MarkersAt(rstripNL(top.line), 1) = <<>>
        /\ disp'.fun = "handleWarning") =>
           /\ out' # <<>>
           /\ out'[Len(out')].file = <<top.fileName>>
           /\ out'[Len(out')].line # <<>>]_vars

\* handleWarning has printed a warning of a parser that was given a file
\* name and has processed no marker: the location has the line number and
\* no file.
C27_Witness ==
    /\ stack # <<>> /\ top.kind = "LaTexParser" /\ NoMarkerYet(top)
    /\ disp.fun = "handleWarning" /\ mlog = <<>>
    /\ out # <<>> /\ out[Len(out)].ev = "warning"
    /\ out[Len(out)].file = <<>> /\ out[Len(out)].line = <<"5">>

\* The extensions a parser tracks: .tex and the one of its file name.
Tracked(f) ==
    {".tex"} \cup (IF f.fileName # None THEN {splitext_ext(f.fileName)} ELSE {})

\* The top-most entry of a file stack whose extension is in exts, the empty
\* name when there is none.
TopTracked(fs, exts) ==
    LET at == { i \in 1..Len(fs) : splitext_ext(fs[i]) \in exts }
    IN  IF at = {} THEN "" ELSE fs[CHOOSE i \in at : \A j \in at : j <= i]

\* C28: after every open marker, and every close marker that removed an
\* entry, the active file of a LaTexParser is the top-most entry of its file
\* stack whose extension is .tex or the extension of the parser's file name,
\* and the empty name when the stack has no such entry; the active file is
\* never a name with another extension.
C28_ActiveFile ==
    /\ [][TracksFiles =>
            /\ top.exts = Tracked(top)
            /\ \A i \in 1..Len(mlog') :
                 LET e == mlog'[i]
                 IN  (e.openclose = "(" \/ e.before # <<>>) =>
                        e.activeAfter = TopTracked(e.after, Tracked(top))
            /\ mlog' # <<>> =>
                 stack'[Len(stack)].currentFile = mlog'[Len(mlog')].activeAfter]_vars
    /\ [](\A n \in 1..Len(stack) :
            stack[n].kind = "LaTexParser" =>
              /\ stack[n].currentFile = ""
                   \/ splitext_ext(stack[n].currentFile) \in Tracked(stack[n])
              /\ NoMarkerYet(stack[n])
                   \/ stack[n].currentFile = TopTracked(stack[n].fileStack, Tracked(stack[n])))

\* A parser whose file name ends in .cls has opened a class file after a
\* .tex file, and the class file is the active file.
C28_Witness ==
    /\ stack # <<>> /\ top.kind = "LaTexParser" /\ top.fileName = ClassFileName
    /\ top.fileStack = <<ClassFileName, "./test.tex", "/usr/share/texmf/article.cls">>
    /\ top.currentFile = "/usr/share/texmf/article.cls"
    /\ mlog # <<>> /\ mlog[1].activeBefore = "./test.tex"

(* ---------------------------- the orchestrator ------------------------- *)

\* The orchestrator is about to process the banner of a tool.
AtBanner ==
    /\ exc = "" /\ stack # <<>> /\ top.pc = "parseLine" /\ top.kind = "ParseLatexMk"
    /\ Len(top.line) >= 2 /\ top.line[1].t = "This is "
    /\ top.line[2].t \in {"pdfTeXk", "BibTeX", "makeindex"}

\* The parser of the tool a banner names.
ParserOf(tool) ==
    CASE tool = "pdfTeXk" -> "LaTexParser"
      [] tool = "BibTeX" -> "BibTexParser"
      [] tool = "makeindex" -> "MkIndexParser"

\* C29: on the banner of a tool the orchestrator starts the parser of that
\* tool on its stream: a LaTexParser for the TeX engine, a BibTexParser for
\* BibTeX, a MkIndexParser for makeindex.
C29_ParserForBanner ==
    [][(AtBanner /\ exc' = "") =>
          /\ Len(stack') = Len(stack) + 1
          /\ stack'[Len(stack')].kind = ParserOf(top.line[2].t)
          /\ stack'[Len(stack')].pc = "readline"]_vars

\* The orchestrator has read the banner of makeindex and started a
\* BibTexParser.
C29_Witness ==
    /\ stream.seen = <<"IdxBanner">>
    /\ Len(stack) = 2 /\ stack[1].kind = "ParseLatexMk" /\ stack[1].pc = "startBibtex"
    /\ stack[2].kind = "BibTexParser"
    /\ disp.fun = "startBibtex"

\* C30: when the orchestrator dispatches a run-boundary marker that is not
\* the first, it reports its error and warning counts, which are the numbers
\* of statements dispatched to error and to warning handlers since the
\* marker before; the first marker is not reported; at every marker both
\* counts become zero and the run count grows by one.
C30_RunBoundary ==
    [][(exc = "" /\ stack # <<>> /\ top.pc = "parseLine" /\ disp'.fun = "newRun") =>
          LET f == top
              g == stack'[Len(stack)]
          IN  /\ f.kind = "ParseLatexMk" /\ Len(stack') = Len(stack)
              /\ IF f.runDisp > 0
                 THEN /\ Len(journal') = Len(journal) + 1
                      /\ journal'[Len(journal')].ev = "report"
                      /\ journal'[Len(journal')].errs = f.numErrs
                      /\ journal'[Len(journal')].warns = f.numWarns
                      /\ f.numErrs = since.errs /\ f.numWarns = since.warns
                 ELSE journal' = journal
              /\ g.numErrs = 0 /\ g.numWarns = 0
              /\ g.numRuns = f.numRuns + 1
              /\ g.numRuns = g.runDisp]_vars

\* The orchestrator has dispatched its second run-boundary marker: it
\* reported the error and the warning counted since the first one, and its
\* counts are zero again.
C30_Witness ==
    /\ stack # <<>> /\ top.kind = "ParseLatexMk" /\ disp.fun = "newRun"
    /\ top.numRuns = 2 /\ top.numErrs = 0 /\ top.numWarns = 0
    /\ Len(Reports) = 1 /\ journal[Len(journal)] = Reports[1]
    /\ Reports[1].errs = 1 /\ Reports[1].warns = 1

(* ----------------------- runs, classes and markers --------------------- *)

\* The orchestrator dispatches its first run-boundary marker in this step.
FirstBoundary ==
    /\ exc = "" /\ stack # <<>> /\ top.pc = "parseLine" /\ top.kind = "ParseLatexMk"
    /\ disp'.fun = "newRun" /\ top.runDisp = 0

\* C31: the first run-boundary marker of the orchestrator adds no report,
\* sets both counts to zero, whatever its delegates had added to them, and
\* the run count to 1; a report shows what was dispatched since the marker
\* before it only, and the counts returned after a marker are what was
\* dispatched since the last one: what was counted before the first marker
\* is in no report and not in the result.
C31_FirstBoundary ==
    /\ [][FirstBoundary =>
            /\ journal' = journal /\ Reports = <<>>
            /\ top.numErrs = since.errs /\ top.numWarns = since.warns
            /\ stack'[Len(stack)].numErrs = 0 /\ stack'[Len(stack)].numWarns = 0
            /\ stack'[Len(stack)].numRuns = 1
            /\ since' = [errs |-> 0, warns |-> 0]]_vars
    /\ [](\A j \in 1..Len(Reports) :
            /\ Reports[j].run = j
            /\ Reports[j].errs = Reports[j].sinceErrs
            /\ Reports[j].warns = Reports[j].sinceWarns)
    /\ []((Returned /\ top.kind = "ParseLatexMk" /\ top.runDisp = 1) =>
            /\ Reports = <<>>
            /\ result[2] = since.errs /\ result[3] = since.warns)

\* The orchestrator has returned from a run with one run-boundary marker,
\* and an error and a warning of a delegate before it: no report was made
\* and the counts returned are zero.
C31_Witness ==
    /\ Returned /\ top.kind = "ParseLatexMk" /\ top.runDisp = 1 /\ top.numRuns = 1
    /\ top.errDisp = 1 /\ top.warnDisp = 1
    /\ since.errs = 0 /\ since.warns = 0
    /\ Reports = <<>> /\ result[2] = 0 /\ result[3] = 0

\* A delegate of the orchestrator returns in this step.
DelegateReturn ==
    /\ exc = "" /\ Len(stack) = 2 /\ top.pc = "wrapup" /\ Len(stack') = 1

\* The orchestrator dispatches a run-boundary marker in this step.
Boundary ==
    /\ exc = "" /\ Len(stack) = 1 /\ top.pc = "parseLine" /\ disp'.fun = "newRun"

\* C32: the orchestrator's counts change in two ways only: the return of a
\* delegate adds the counts the delegate returns, and a run-boundary marker
\* sets them to zero; the counts it returns are therefore the sums of what
\* the delegates after the last marker returned, which is what was
\* dispatched to error and to warning handlers since then; the run count
\* it ends with is the number of markers dispatched, and 1 when there was
\* none.
C32_LastRun ==
    /\ [][(stack # <<>> /\ stack[1].kind = "ParseLatexMk") =>
            IF DelegateReturn
            THEN /\ stack'[1].numErrs = stack[1].numErrs + stack[2].numErrs
                 /\ stack'[1].numWarns = stack[1].numWarns + stack[2].numWarns
            ELSE IF Boundary
            THEN stack'[1].numErrs = 0 /\ stack'[1].numWarns = 0
            ELSE /\ stack'[1].numErrs = stack[1].numErrs
                 /\ stack'[1].numWarns = stack[1].numWarns]_vars
    /\ []((Returned /\ top.kind = "ParseLatexMk") =>
            /\ result[2] = top.numErrs /\ result[3] = top.numWarns
            /\ result[2] = since.errs /\ result[3] = since.warns
            /\ top.numRuns = IF top.runDisp = 0 THEN 1 ELSE top.runDisp)

\* The orchestrator has returned from a run with a delegate that counted an
\* error before the only run-boundary marker and a delegate that counted an
\* error after it: the count returned is 1.
C32_Witness ==
    /\ Returned /\ top.kind = "ParseLatexMk"
    /\ top.runDisp = 1 /\ top.numRuns = 1
    /\ top.errDisp = 2 /\ result[2] = 1

\* The orchestrator itself is about to process a statement that begins with
\* "Latexmk".
AtLatexmk ==
    /\ exc = "" /\ stack # <<>> /\ top.pc = "parseLine" /\ top.kind = "ParseLatexMk"
    /\ top.line # <<>> /\ top.line[1].t = "Latexmk"

\* s is "Latexmk: All targets (...) are up-to-date".
IsAllTargets(s) ==
    /\ Len(s) >= 6 /\ s[1].t = "Latexmk" /\ s[2].t = ": All targets " /\ s[3].t = "("
    /\ \E i \in 4..(Len(s) - 1) : s[i].t = ")" /\ s[i + 1].t = " are up-to-date"

\* C33: the orchestrator prints a statement that begins with "Latexmk" as a
\* message of latexmk, and counts nothing for it; it sets done for
\* "Latexmk: All targets (...) are up-to-date" and leaves done as it is for
\* any other such statement.
C33_LatexmkMessages ==
    [][AtLatexmk =>
         LET f == top
             g == stack'[Len(stack)]
         IN  /\ Len(stack') = Len(stack) /\ exc' = ""
             /\ out' = <<Ev("ltxmk", Str(rstripNL(f.line)))>>
             /\ g.numErrs = f.numErrs /\ g.numWarns = f.numWarns
             /\ g.numRuns = f.numRuns /\ g.isFatal = f.isFatal
             /\ g.done = IF IsAllTargets(f.line) THEN TRUE ELSE f.done
             /\ disp'.fun = IF IsAllTargets(f.line) THEN "finishRun" ELSE "ltxmk"]_vars

\* The orchestrator has dispatched "Latexmk: All targets (...) are
\* up-to-date": the statement was printed as a message and done is set.
C33_Witness ==
    /\ stack # <<>> /\ top.kind = "ParseLatexMk" /\ Len(stack) = 1
    /\ disp.fun = "finishRun" /\ ~disp.doneBefore /\ top.done
    /\ Len(out) = 1 /\ out[1].ev = "ltxmk"
    /\ out[1].text = Str(rstripNL(PhysLine("AllTargets", 1)))

\* s is a notice of an overfull or underfull box.
IsBoxNotice(s) ==
    /\ s # <<>>
    /\ \/ s[1].t = "Overfull" /\ \E i \in 2..Len(s) : s[i].t = "wide"
       \/ s[1].t = "Underfull" /\ \E i \in 2..Len(s) : s[i].t = "badness"

\* C34: a LaTexParser dispatches the notice of an overfull or underfull box
\* to warn2, and a statement dispatched to warn2 is printed as one event of
\* the class fmtWarning and leaves numWarns, numErrs, isFatal and done as
\* they were.
C34_BoxNotices ==
    [][(exc = "" /\ stack # <<>> /\ top.pc = "parseLine"
        /\ (disp'.fun = "warn2"
              \/ (top.kind = "LaTexParser" /\ IsBoxNotice(top.line)))) =>
          LET f == top
              g == stack'[Len(stack)]
          IN  /\ disp'.fun = "warn2" /\ IsBoxNotice(f.line) /\ exc' = ""
              /\ out' # <<>> /\ out'[Len(out')] = Ev("fmtWarning", Str(rstripNL(f.line)))
              /\ \A i \in 1..(Len(out') - 1) : out'[i].ev \notin {"fmtWarning", "warning", "error"}
              /\ g.numWarns = f.numWarns /\ g.numErrs = f.numErrs
              /\ g.isFatal = f.isFatal /\ g.done = f.done
              /\ g.warnDisp = f.warnDisp /\ g.errDisp = f.errDisp]_vars

\* A parser that had counted a warning and an error has dispatched a box
\* notice: it was printed as fmtWarning and the counts are what they were.
C34_Witness ==
    /\ stack # <<>> /\ top.kind = "LaTexParser" /\ disp.fun = "warn2"
    /\ top.numWarns = 1 /\ top.numErrs = 1 /\ ~top.done /\ ~top.isFatal
    /\ out # <<>> /\ out[Len(out)].ev = "fmtWarning"

(* --------------------------- old-style errors --------------------------- *)

\* The pieces of the sample lines that contain "error" in any mix of upper
\* and lower case; ErrorTok is the subset the pattern [Ee]rror finds.
ErrorAnyCaseTok ==
    ErrorTok \cup {" INTERNAL ERROR in format file"}

ContainsErrorAnyCase(s) == \E i \in 1..Len(s) : s[i].t \in ErrorAnyCaseTok

AtOldStyle ==
    /\ exc = "" /\ stack # <<>> /\ top.pc = "parseLine"
    /\ disp'.fun = "handleOldStyleErrors"

\* C35: a statement dispatched as an old-style "!" message counts as an error
\* (numErrs + 1, numWarns unchanged) exactly when it contains "error" compared
\* without regard to case, and as a warning (numWarns + 1, numErrs unchanged)
\* otherwise.
C35_OldStyleAnyCase ==
    [][AtOldStyle =>
          LET f == top
              g == stack'[Len(stack)]
          IN  /\ Len(stack') = Len(stack)
              /\ f.line[1].t = "!"
              /\ IF ContainsErrorAnyCase(f.line)
                 THEN g.numErrs = f.numErrs + 1 /\ g.numWarns = f.numWarns
                 ELSE g.numWarns = f.numWarns + 1 /\ g.numErrs = f.numErrs]_vars

\* The statement "! INTERNAL ERROR in format file" has been dispatched as an
\* old-style message and counted as a warning.
C35_Witness ==
    /\ stack # <<>> /\ top.kind = "LaTexParser"
    /\ disp.fun = "handleOldStyleErrors"
    /\ top.numWarns = 1 /\ top.numErrs = 0
    /\ out # <<>> /\ out[Len(out)] = Ev("warning", Str(rstripNL(PhysLine("OldErrUp", 1))))

(* ----------------------- the bibliography parser ------------------------ *)

\* A line of dashes and nothing else.
IsSeparator(s) ==
    /\ Len(s) >= 2
    /\ s[Len(s)].t = "\n"
    /\ \A i \in 1..(Len(s) - 1) : s[i].t \in {"---", "---------"}

\* "line N of file F" after two or three dashes.
IsFileLineReference(s) ==
    \E i \in 1..Len(s) :
        /\ i + 3 <= Len(s)
        /\ \/ i = 1 /\ s[i].t = "--line "
           \/ i = 2 /\ s[1].t = "---" /\ s[i].t = "line "
        /\ s[i + 1].t \in DigitTok
        /\ s[i + 2].t = " of file "

AtBibLine ==
    /\ exc = "" /\ stack # <<>> /\ top.pc = "parseLine" /\ top.kind = "BibTexParser"

\* C36: a BibTexParser sets done on the separator line only; a line
\* "line N of file F" after two or three dashes is dispatched to
\* handleFileLineReference, counts one warning and leaves done as it is.
C36_ReferenceNeverEndsRun ==
    [][AtBibLine =>
          LET f == top
              g == stack'[Len(stack)]
          IN  /\ Len(stack') = Len(stack)
              /\ (g.done # f.done) => IsSeparator(f.line)
              /\ IsFileLineReference(f.line) =>
                    /\ disp'.fun = "handleFileLineReference"
                    /\ g.numWarns = f.numWarns + 1
                    /\ g.numErrs = f.numErrs
                    /\ g.done = f.done]_vars

\* The line "---line 12 of file refs.bib" was the first of the stream: it
\* set done, no statement was dispatched to a warning handler, and the parser
\* returned after reading the warning that followed it.
C36_Witness ==
    /\ stream.seen = <<"BibRef3", "BibWarn">>
    /\ Returned /\ top.kind = "BibTexParser"
    /\ top.done /\ top.warnDisp = 0
    /\ result = <<FALSE, 0, 0>>
    /\ out = <<>>

(* ------------------------ the two-statement error ----------------------- *)

AtPdfLatexError ==
    /\ exc = "" /\ stack # <<>> /\ top.pc = "parseLine"
    /\ disp'.fun = "pdfLatexError"

\* C37: the dispatch of "Error: pdflatex" counts exactly one error, and takes
\* exactly one statement from the parser's source: the stream and the
\* decorators' buffers are afterwards as one readline() leaves them.  isFatal
\* is set exactly if that statement begins with " ==> Fatal error occurred";
\* when the read returns end of input no flag changes and nothing is raised.
C37_TwoStatementError ==
    [][AtPdfLatexError =>
          LET f == top
              g == stack'[Len(stack)]
          IN  /\ exc' = "" /\ Len(stack') = Len(stack)
              /\ g.numErrs = f.numErrs + 1
              /\ g.numWarns = f.numWarns
              /\ g.done = f.done
              /\ \E r \in input_stream_readline(f.input_stream, stream) :
                    /\ stream' = r.in
                    /\ g.input_stream = r.w
                    /\ g.isFatal =
                          (f.isFatal \/
                             (r.line # EOF /\ Len(r.line) >= 3
                              /\ SubSeq(Str(r.line), 1, 3) =
                                    <<" ", "==>", " Fatal error occurred">>))
                    /\ (r.line = EOF) => (g.isFatal = f.isFatal /\ stream'.eof)]_vars

\* "Error: pdflatex" was the first statement and the fatal message the
\* second: both lines are read, one error is counted, isFatal is set and the
\* event printed holds both statements.
C37_Witness ==
    /\ stack # <<>> /\ top.kind = "LaTexParser"
    /\ disp.fun = "pdfLatexError"
    /\ stream.pos = 2
    /\ top.numErrs = 1 /\ top.numWarns = 0 /\ top.isFatal /\ ~top.done
    /\ out # <<>>
    /\ out[Len(out)] = Ev("error", Str(rstripNL(PhysLine("PdfErr", 1)))
                                      \o Str(rstripNL(PhysLine("Fatal", 2))))

(* ------------------------ the read after done --------------------------- *)

\* A handler of the top parser has just set done.
SetsDone ==
    /\ exc = "" /\ stack # <<>> /\ top.pc = "parseLine" /\ ~top.done
    /\ exc' = "" /\ Len(stack') = Len(stack)
    /\ stack'[Len(stack)].done

\* The top parser is about to read with done set.
TerminalRead == /\ exc = "" /\ stack # <<>> /\ top.pc = "readline" /\ top.done

\* The top parser has left its loop with done set.
TerminalWrapup == /\ exc = "" /\ stack # <<>> /\ top.pc = "wrapup" /\ top.done

Counts(f) == <<f.isFatal, f.numErrs, f.numWarns, f.numRuns, f.errDisp, f.warnDisp>>

\* C38: a parser whose handler has set done reads its source once more: the
\* step after the dispatch is one readline() of its source, which leaves the
\* loop whatever it returns; the statement read lies after the one that set
\* done and is not dispatched: nothing is printed or counted for it, in that
\* step or at wrapup.  The read moves the cursor of the stream the parsers
\* share, by one line when the source is the stream itself; a delegate's
\* decorators go with it, the parser that started it keeps its own source
\* and the cursor, and the first statement it dispatches afterwards begins
\* at least two lines after the statement that ended the delegate.
C38_OneMoreRead ==
    /\ [][SetsDone => stack'[Len(stack)].pc = "readline"]_vars
    /\ [][TerminalRead =>
            LET f == top
                g == stack'[Len(stack)]
            IN  /\ exc' = "" /\ Len(stack') = Len(stack)
                /\ g.pc = "wrapup"
                /\ Counts(g) = Counts(f) /\ g.done
                /\ out' = <<>> /\ journal' = journal
                /\ disp'.fun = "" /\ covered' = covered
                /\ \E r \in input_stream_readline(f.input_stream, stream) :
                      /\ stream' = r.in /\ g.input_stream = r.w /\ g.line = r.line
                      /\ stream'.pos >= stream.pos
                      /\ IF r.line = EOF
                         THEN stream'.eof
                         ELSE /\ \A a \in Frags(r.line) :
                                    a[1] > f.endedAt /\ a[1] <= stream'.pos
                              /\ f.input_stream.cls = "file" =>
                                    stream'.pos = stream.pos + 1]_vars
    /\ [][TerminalWrapup =>
            /\ exc' = "" /\ stream' = stream
            /\ out' = <<>> /\ journal' = journal
            /\ disp'.fun = "" /\ covered' = covered
            /\ Frags(top.line) \cap covered = {}
            /\ IF Len(stack) = 1
               THEN /\ Len(stack') = 1 /\ stack'[1].pc = "returned"
                    /\ result' = <<top.isFatal, top.numErrs, top.numWarns>>
               ELSE /\ Len(stack') = Len(stack) - 1
                    /\ stack'[Len(stack')].pc = "readline"
                    /\ stack'[Len(stack')].input_stream =
                          stack[Len(stack')].input_stream
                    /\ handoff'.term = top.endedAt]_vars
    /\ []((handoff.term # 0 /\ handoff.first # 0) => handoff.first >= handoff.term + 2)

\* A LaTexParser started by the orchestrator has set done, read one more
\* statement through its decorators and left its loop: the statement is held
\* undispatched, the cursor is past it, and a decorator holds a line read
\* ahead.
C38_Witness ==
    /\ exc = "" /\ Len(stack) = 2
    /\ stack[1].kind = "ParseLatexMk" /\ top.kind = "LaTexParser"
    /\ top.pc = "wrapup" /\ top.done
    /\ top.line # EOF
    /\ Frags(top.line) \cap covered = {}
    /\ stream.pos > LastLine(top.line)
    /\ \/ top.input_stream.lbw # <<>>
       \/ top.input_stream.nmw # <<>>
       \/ top.input_stream.nmpw # <<>>

(* --------------------------- the process result ------------------------- *)

\* C39: when the parser's run returned isFatal = TRUE, the result of
\* runParsedProcess is fatal and has the exit code -1 whatever stdout.close()
\* returned, also when the process returned 0, and the status derived from
\* it, exitcode - signalcode, is not 0.
C39_FatalRunFails ==
    \A i \in 1..Len(processresult) :
        LET p == processresult[i]
        IN  /\ p.result.isFatal = result[1]
            /\ p.stat = p.result.exitcode - p.result.signalcode
            /\ p.result.isFatal => /\ p.result.exitcode = -1
                                   /\ p.stat # 0

\* A LaTexParser returned isFatal = TRUE, the process returned 0:
\* the result has the exit code -1 and the status is -1.
C39_Witness ==
    /\ processresult # <<>>
    /\ top.kind = "LaTexParser"
    /\ result[1] = TRUE
    /\ processresult[1].closed = stdout_close(0)
    /\ processresult[1].result.isFatal
    /\ processresult[1].result.exitcode = -1
    /\ processresult[1].result.signalcode = 0
    /\ processresult[1].stat = -1
====
